---------------------------- MODULE Spec2Model ----------------------------
(***************************************************************************)
(* A model of the fallback-recovery engine of wifi-automation-tool:        *)
(*   - PackageManager.install_package_with_fallback  (package_manager.py)  *)
(*   - PackageManager.check_system_health            (package_manager.py)  *)
(*   - DriverManager.install_required_drivers        (driver_manager.py)   *)
(*   - SystemHealth.comprehensive_health_check        (system_health.py)    *)
(*   - PackageManager.repair_system_health,                                *)
(*     PackageManager.fix_package_management          (package_manager.py)  *)
(*   - ErrorHandler.handle_error                      (error_handler.py)    *)
(*   - WiFiAutomationTool.run and main                (main.py)             *)
(*   - DriverManager.troubleshoot_wifi                (driver_manager.py)   *)
(*   - run_command                                    (utils.py)            *)
(*   - the multi-command repair steps, _fix_sources_list                   *)
(*                                                   (package_manager.py)  *)
(*   - create_backup, safe_file_write                 (utils.py)            *)
(*   - DriverManager._compile_realtek_drivers         (driver_manager.py)   *)
(* External commands are the environment: every subprocess.run call gets   *)
(* an outcome drawn from the outcomes that call can have.                  *)
(***************************************************************************)
EXTENDS Integers, Sequences, FiniteSets, TLC

VARIABLES
    \* ---- PackageManager.install_package_with_fallback (one call)
    pk_pc,          \* "call" | "returned" | "raised"
    pk_outs,        \* environment: outcome of the command of strategy i, if run
    pk_invoked,     \* the strategies invoked, in order
    pk_ret,         \* the value returned
    \* ---- PackageManager.check_system_health (one call)
    hc_pc,          \* "call" | "returned" | "raised"
    hc_env,         \* environment: what each probe's command / file does
    health_status,  \* the report
    hc_ran,         \* the probes run, in order
    \* ---- DriverManager
    dm_pc,              \* "idle" | "detect" | "online" | "offline" | "generic"
                        \* | "emergency" | "returned" | "raised"
    dm_calls,           \* invocations of install_required_drivers so far
    drivers_installed,  \* self.drivers_installed
    dm_flag_at_call,    \* drivers_installed when the invocation began
    offline_drivers,    \* self.offline_drivers
    dm_file,            \* what drivers/common_drivers.json was at construction
    hardware_info,      \* the descriptor of the invocation
    dm_tiers,           \* the tiers run in the invocation, in order
    dm_verdict,         \* what the online and the offline attempt returned
    dm_frame,           \* the locals of the tier that ran last
    dm_log,             \* external commands attempted in the invocation
    dm_ret,             \* what the invocation returned to its caller
    \* ---- SystemHealth.comprehensive_health_check (one call)
    sh_pc,          \* "call" | "returned" | "raised"
    health_report,  \* the report it returned
    \* ---- PackageManager.repair_system_health (one call)
    rp_pc,          \* "call" | "returned" | "raised"
    rp_report,      \* the report passed in
    rp_actions,     \* the remediation routines run, in order
    rp_exc,         \* the exception that left the call, or "none"
    \* ---- PackageManager.fix_package_management (one call)
    fp_pc,          \* "call" | "returned" | "raised"
    fp_env,         \* environment: what each repair action's commands do
    fp_ran,         \* the repair actions attempted, in order
    fp_failed,      \* the repair actions that raised
    \* ---- ErrorHandler.handle_error (one call)
    he_pc,          \* "call" | "returned" | "raised"
    he_error,       \* the failure passed in: its type name and its message
    he_ran,         \* the repair routines run, in order, with what they returned
    \* ---- main.py: one process
    run_pc,         \* stage about to run, or "exit0" | "exit1" | "crashed"
    run_mode,       \* the command line flag
    run_trace,      \* the stages performed, in order
    run_exc,        \* the failure forwarded to handle_error / that ended the process
    \* ---- DriverManager.troubleshoot_wifi (invoked repeatedly)
    tw_calls,       \* per invocation: the commands attempted, the failure
                    \* logged, the exception that left the call
    \* ---- utils.run_command (one call)
    rc_pc,          \* "call" | "returned" | "raised"
    rc_in,          \* what the command does
    rc_ret,         \* the tuple returned
    \* ---- PackageManager: one multi-command repair step (one call)
    st_pc,          \* "call" | "returned" | "raised"
    st_in,          \* the step, and what each of its commands does
    st_log,         \* the commands run, in order
    st_exc,         \* the exception that left the step, or "none"
    \* ---- the files the tool rewrites (_fix_sources_list, safe_file_write)
    fs_files,       \* the files that exist: path -> content
    fs_clock,       \* int(time.time())
    fs_calls,       \* per call: the operation, the target's content before
                    \* it, the file operations performed, what it returned
    \* ---- DriverManager._compile_realtek_drivers (one call)
    bd_pc,          \* "call" | "returned"
    bd_in,          \* what the build's commands do
    bd_cwd0,        \* the working directory at the call
    bd_cwd          \* the working directory of the process

pkVars == <<pk_pc, pk_outs, pk_invoked, pk_ret>>
hcVars == <<hc_pc, hc_env, health_status, hc_ran>>
dmVars == <<dm_pc, dm_calls, drivers_installed, dm_flag_at_call, offline_drivers,
            dm_file,
            hardware_info, dm_tiers, dm_verdict, dm_frame, dm_log, dm_ret>>
shVars == <<sh_pc, health_report>>
rpVars == <<rp_pc, rp_report, rp_actions, rp_exc>>
fpVars == <<fp_pc, fp_env, fp_ran, fp_failed>>
heVars == <<he_pc, he_error, he_ran>>
runVars == <<run_pc, run_mode, run_trace, run_exc>>
rcVars == <<rc_pc, rc_in, rc_ret>>
stVars == <<st_pc, st_in, st_log, st_exc>>
fsVars == <<fs_files, fs_clock, fs_calls>>
bdVars == <<bd_pc, bd_in, bd_cwd0, bd_cwd>>
moreVars == <<tw_calls, rcVars, stVars, fsVars, bdVars>>
restVars == <<shVars, rpVars, fpVars, heVars, runVars, moreVars>>
vars   == <<pkVars, hcVars, dmVars, restVars>>

(***************************************************************************)
(* Python: calls either return a value or raise.                           *)
(***************************************************************************)
Return(v) == [exc |-> "none", val |-> v]
Raise(e)  == [exc |-> e, val |-> FALSE]

\* The ways an external command can end.  "timeout" exists only for calls
\* that pass timeout=...; "nostart" is a command that cannot be started.
CmdOutcomesT  == {"ok", "nonzero", "timeout", "nostart"}
CmdOutcomesNT == {"ok", "nonzero", "nostart"}

\* subprocess.run(argv, check=check): the exception it raises, or "none".
subprocess_run(outcome, check) ==
    CASE outcome = "ok"      -> "none"
      [] outcome = "nonzero" -> IF check THEN "CalledProcessError" ELSE "none"
      [] outcome = "timeout" -> "TimeoutExpired"
      [] outcome = "nostart" -> "FileNotFoundError"

\* Mutant: the handler catches only a nonzero exit.
except_nonzero_exit_only(e) == e = "CalledProcessError"

\* `except Exception`: every exception but the ones that end the process.
except_Exception(e) == e \notin {"none", "SystemExit", "KeyboardInterrupt"}
\* `except subprocess.CalledProcessError`
except_CalledProcessError(e) == e = "CalledProcessError"

(***************************************************************************)
(* PackageManager: the four install strategies and the chain.              *)
(***************************************************************************)
\* try: subprocess.run([...], check=True, timeout=300); return True
\* except Exception: return False
install_try(outcome) ==
    LET e == subprocess_run(outcome, TRUE)
    IN  IF e = "none" THEN Return(TRUE)
        ELSE IF except_Exception(e) THEN Return(FALSE)
        ELSE Raise(e)

\* Mutant: the handler catches only a nonzero exit.
install_try_narrow(outcome) ==
    LET e == subprocess_run(outcome, TRUE)
    IN  IF e = "none" THEN Return(TRUE)
        ELSE IF except_CalledProcessError(e) THEN Return(FALSE)
        ELSE Raise(e)

_install_normal(outcome)           == install_try(outcome)
_install_fix_broken(outcome)       == install_try(outcome)
_install_allow_downgrades(outcome) == install_try(outcome)
_install_force_yes(outcome)        == install_try(outcome)

\* Mutant: the chain lists fix-broken before the plain install.
methods_swapped ==
    <<"_install_fix_broken", "_install_normal",
      "_install_allow_downgrades", "_install_force_yes">>

\* methods = [...]: the chain, in declaration order.
methods ==
    <<"_install_normal", "_install_fix_broken",
      "_install_allow_downgrades", "_install_force_yes">>

call_method(name, outcome) ==
    CASE name = "_install_normal"           -> _install_normal(outcome)
      [] name = "_install_fix_broken"       -> _install_fix_broken(outcome)
      [] name = "_install_allow_downgrades" -> _install_allow_downgrades(outcome)
      [] name = "_install_force_yes"        -> _install_force_yes(outcome)

\* for method in methods: if method(package_name): return True
\* ... return False.   outs[i] is what the i-th strategy's command does.
RECURSIVE chain_loop(_, _, _)
chain_loop(outs, i, invoked) ==
    IF i > Len(methods)
    THEN [exc |-> "none", val |-> FALSE, invoked |-> invoked]
    ELSE LET r   == call_method(methods[i], outs[i])
             inv == Append(invoked, methods[i])
         IN  IF r.exc # "none"
             THEN [exc |-> r.exc, val |-> FALSE, invoked |-> inv]
             ELSE IF r.val
                  THEN [exc |-> "none", val |-> TRUE, invoked |-> inv]
                  ELSE chain_loop(outs, i + 1, inv)

\* Mutant: the last strategy of the chain is never reached.
RECURSIVE chain_loop_short(_, _, _)
chain_loop_short(outs, i, invoked) ==
    IF i > Len(methods) - 1
    THEN [exc |-> "none", val |-> FALSE, invoked |-> invoked]
    ELSE LET r   == call_method(methods[i], outs[i])
             inv == Append(invoked, methods[i])
         IN  IF r.exc # "none"
             THEN [exc |-> r.exc, val |-> FALSE, invoked |-> inv]
             ELSE IF r.val
                  THEN [exc |-> "none", val |-> TRUE, invoked |-> inv]
                  ELSE chain_loop_short(outs, i + 1, inv)

install_package_with_fallback_short(outs) == chain_loop_short(outs, 1, <<>>)

install_package_with_fallback(outs) == chain_loop(outs, 1, <<>>)

ChainEnv == [1..4 -> CmdOutcomesT]

(***************************************************************************)
(* PackageManager.check_system_health and its six probes.                  *)
(***************************************************************************)
\* `df /` reports available space in KB; required_mb is the default argument.
required_mb == 500
KB_PER_MB == 1024

\* What a probe's command writes on stdout is kept as the facts the probe
\* reads from it.
AptEnv     == [outcome : CmdOutcomesT, reading_lists : BOOLEAN]
SourcesEnv == {"missing", "unreadable", "kali-rolling", "http.kali.org",
               "kali.download", "other"}
GpgEnv     == [outcome : CmdOutcomesNT, kali_key : BOOLEAN]
repositories == <<"http.kali.org", "kali.download", "archive-4.kali.org">>
PingEnv    == [1..Len(repositories) -> {"ok", "nonzero"}] \cup
              {[i \in 1..Len(repositories) |-> "nostart"]}
\* df: cannot start | header only | a second line whose 4th field is no
\* number | a second line with `available` KB
DfAvailable == {0, required_mb * KB_PER_MB - 1, required_mb * KB_PER_MB,
                required_mb * KB_PER_MB + 1}
DfEnv      == [kind : {"nostart", "header_only", "unparseable"}, available : {0}] \cup
              [kind : {"parsed"}, available : DfAvailable]
DpkgEnv    == [outcome : CmdOutcomesNT, says_broken : BOOLEAN]

HealthEnv ==
    [apt : AptEnv, sources : SourcesEnv, gpg : GpgEnv, ping : PingEnv,
     df : DfEnv, dpkg : DpkgEnv]

\* result.returncode == 0 or "Reading package lists" in result.stdout
_test_apt_functionality(env) ==
    LET e == subprocess_run(env.outcome, FALSE)
    IN  IF e # "none"
        THEN IF except_Exception(e) THEN Return(FALSE) ELSE Raise(e)
        ELSE Return(env.outcome = "ok" \/ env.reading_lists)

kali_patterns == {"kali-rolling", "http.kali.org", "kali.download"}

_check_sources_list(env) ==
    IF env = "missing" THEN Return(FALSE)
    ELSE IF env = "unreadable" THEN Return(FALSE)      \* open() raises, caught
    ELSE Return(\E pattern \in kali_patterns : pattern = env)

\* Mutant: the probe has no handler, its command's error leaves it.
_check_gpg_keys_unguarded(env) ==
    LET e == subprocess_run(env.outcome, FALSE)
    IN  IF e # "none" THEN Raise(e)
        ELSE Return(env.outcome = "ok" /\ env.kali_key)

\* result.returncode == 0 and 'Kali Linux' in result.stdout
_check_gpg_keys(env) ==
    LET e == subprocess_run(env.outcome, FALSE)
    IN  IF e # "none"
        THEN IF except_Exception(e) THEN Return(FALSE) ELSE Raise(e)
        ELSE Return(env.outcome = "ok" /\ env.kali_key)

\* for repo in repositories: ping; if returncode == 0: return True
RECURSIVE ping_loop(_, _)
ping_loop(env, i) ==
    IF i > Len(repositories) THEN Return(FALSE)
    ELSE LET e == subprocess_run(env[i], FALSE)
         IN  IF e # "none"
             THEN IF except_Exception(e) THEN Return(FALSE) ELSE Raise(e)
             ELSE IF env[i] = "ok" THEN Return(TRUE)
                  ELSE ping_loop(env, i + 1)

_test_repository_connectivity(env) == ping_loop(env, 1)

\* available = int(lines[1].split()[3]); available / 1024 >= required_mb
\* (the quotient is a float: compared exactly, as available >= 1024 * mb)
_check_disk_space(env) ==
    CASE env.kind = "nostart"     -> Return(FALSE)     \* FileNotFoundError, caught
      [] env.kind = "header_only" -> Return(FALSE)     \* len(lines) > 1 fails
      [] env.kind = "unparseable" -> Return(FALSE)     \* ValueError/IndexError, caught
      [] env.kind = "parsed"      -> Return(env.available >= required_mb * KB_PER_MB)

\* result.returncode == 0 and 'broken' not in result.stdout.lower()
_check_broken_dependencies(env) ==
    LET e == subprocess_run(env.outcome, FALSE)
    IN  IF e # "none"
        THEN IF except_Exception(e) THEN Return(FALSE) ELSE Raise(e)
        ELSE Return(env.outcome = "ok" /\ ~env.says_broken)

health_status_initial ==
    [apt_working |-> FALSE, sources_valid |-> FALSE, gpg_keys_valid |-> FALSE,
     network_connected |-> FALSE, disk_space_adequate |-> FALSE,
     dependencies_ok |-> FALSE, overall_health |-> FALSE]

\* Mutant: every probe gates the overall verdict.
overall_all_six(h) ==
    /\ h.apt_working /\ h.sources_valid /\ h.gpg_keys_valid
    /\ h.network_connected /\ h.disk_space_adequate /\ h.dependencies_ok

\* all([apt_working, sources_valid, network_connected, disk_space_adequate])
overall(h) ==
    /\ h.apt_working /\ h.sources_valid
    /\ h.network_connected /\ h.disk_space_adequate

\* The probes in the order the code runs them, each assigned into the
\* report; an exception leaving a probe ends the try block and the report
\* built so far is returned by the handler.
probe_order ==
    <<"apt_working", "sources_valid", "gpg_keys_valid", "network_connected",
      "disk_space_adequate", "dependencies_ok">>

run_probe(name, env) ==
    CASE name = "apt_working"         -> _test_apt_functionality(env.apt)
      [] name = "sources_valid"       -> _check_sources_list(env.sources)
      [] name = "gpg_keys_valid"      -> _check_gpg_keys(env.gpg)
      [] name = "network_connected"   -> _test_repository_connectivity(env.ping)
      [] name = "disk_space_adequate" -> _check_disk_space(env.df)
      [] name = "dependencies_ok"     -> _check_broken_dependencies(env.dpkg)

RECURSIVE probe_loop(_, _, _, _)
probe_loop(env, i, h, ran) ==
    IF i > Len(probe_order)
    THEN [exc |-> "none", val |-> [h EXCEPT !.overall_health = overall(h)],
          ran |-> ran]
    ELSE LET r == run_probe(probe_order[i], env)
             now == Append(ran, probe_order[i])
         IN  IF r.exc # "none"
             THEN \* except Exception: return health_status
                  [exc |-> "none", val |-> h, ran |-> now]
             ELSE probe_loop(env, i + 1, [h EXCEPT ![probe_order[i]] = r.val], now)

check_system_health(env) == probe_loop(env, 1, health_status_initial, <<>>)


(***************************************************************************)
(* Text.  A Python str is a sequence of one-character strings, so that     *)
(* str.lower() and the `in` substring test are computed, not assumed.      *)
(***************************************************************************)
UpperChars ==
    <<"A", "B", "C", "D", "E", "F", "G", "H", "I", "J", "K", "L", "M",
      "N", "O", "P", "Q", "R", "S", "T", "U", "V", "W", "X", "Y", "Z">>
LowerChars ==
    <<"a", "b", "c", "d", "e", "f", "g", "h", "i", "j", "k", "l", "m",
      "n", "o", "p", "q", "r", "s", "t", "u", "v", "w", "x", "y", "z">>

LowerMap ==
    [c \in {UpperChars[i] : i \in 1..Len(UpperChars)} |->
        LowerChars[CHOOSE i \in 1..Len(UpperChars) : UpperChars[i] = c]]

lower_char(c) == IF c \in DOMAIN LowerMap THEN LowerMap[c] ELSE c

\* str.lower()
Lower(s) == [i \in 1..Len(s) |-> lower_char(s[i])]

\* needle in haystack
Contains(haystack, needle) ==
    \E i \in 0..(Len(haystack) - Len(needle)) :
        SubSeq(haystack, i + 1, i + Len(needle)) = needle

\* sep.join(parts)
RECURSIVE Join(_, _)
Join(parts, sep) ==
    IF parts = <<>> THEN <<>>
    ELSE IF Len(parts) = 1 THEN parts[1]
    ELSE parts[1] \o sep \o Join(Tail(parts), sep)

\* The string literals of driver_manager.py, spelled as the source spells them.
Literals ==
    [ Unknown |->
        <<"U", "n", "k", "n", "o", "w", "n">>,
      comma_space |->
        <<",", " ">>,
      Network_controller |->
        <<"N", "e", "t", "w", "o", "r", "k", " ", "c", "o", "n", "t", "r",
          "o", "l", "l", "e", "r">>,
      Wireless |->
        <<"W", "i", "r", "e", "l", "e", "s", "s">>,
      dot11 |->
        <<"8", "0", "2", ".", "1", "1">>,
      atheros |->
        <<"a", "t", "h", "e", "r", "o", "s">>,
      realtek |->
        <<"r", "e", "a", "l", "t", "e", "k">>,
      intel |->
        <<"i", "n", "t", "e", "l">>,
      iwlwifi |->
        <<"i", "w", "l", "w", "i", "f", "i">>,
      broadcom |->
        <<"b", "r", "o", "a", "d", "c", "o", "m">>,
      Atheros |->
        <<"A", "t", "h", "e", "r", "o", "s">>,
      AR93 |->
        <<"A", "R", "9", "3">>,
      AR94 |->
        <<"A", "R", "9", "4">>,
      AR95 |->
        <<"A", "R", "9", "5">>,
      Realtek |->
        <<"R", "e", "a", "l", "t", "e", "k">>,
      RTL81 |->
        <<"R", "T", "L", "8", "1">>,
      RTL82 |->
        <<"R", "T", "L", "8", "2">>,
      Intel |->
        <<"I", "n", "t", "e", "l">>,
      Centrino |->
        <<"C", "e", "n", "t", "r", "i", "n", "o">>,
      Wireless_AC |->
        <<"W", "i", "r", "e", "l", "e", "s", "s", "-", "A", "C">>,
      Broadcom |->
        <<"B", "r", "o", "a", "d", "c", "o", "m">>,
      BCM43 |->
        <<"B", "C", "M", "4", "3">>,
      mediatek |->
        <<"m", "e", "d", "i", "a", "t", "e", "k">> ]

\* Lines that lspci and lsusb print for the adapters of the modelled machines.
Lines ==
    [ pci_atheros |->
        <<"N", "e", "t", "w", "o", "r", "k", " ", "c", "o", "n", "t", "r",
          "o", "l", "l", "e", "r", ":", " ", "A", "t", "h", "e", "r", "o",
          "s", " ", "A", "R", "9", "4", "8", "5">>,
      pci_intel |->
        <<"N", "e", "t", "w", "o", "r", "k", " ", "c", "o", "n", "t", "r",
          "o", "l", "l", "e", "r", ":", " ", "I", "n", "t", "e", "l", " ",
          "W", "i", "r", "e", "l", "e", "s", "s", "-", "A", "C">>,
      pci_mediatek |->
        <<"N", "e", "t", "w", "o", "r", "k", " ", "c", "o", "n", "t", "r",
          "o", "l", "l", "e", "r", ":", " ", "M", "E", "D", "I", "A", "T",
          "E", "K", " ", "M", "T", "7", "9", "2", "1">>,
      pci_iwlwifi |->
        <<"N", "e", "t", "w", "o", "r", "k", " ", "c", "o", "n", "t", "r",
          "o", "l", "l", "e", "r", ":", " ", "i", "w", "l", "w", "i", "f",
          "i", " ", "8", "2", "6", "5">>,
      pci_ethernet |->
        <<"E", "t", "h", "e", "r", "n", "e", "t", " ", "c", "o", "n", "t",
          "r", "o", "l", "l", "e", "r", ":", " ", "R", "e", "a", "l", "t",
          "e", "k", " ", "R", "T", "L", "8", "1", "1", "1">>,
      usb_realtek |->
        <<"R", "e", "a", "l", "t", "e", "k", " ", "R", "T", "L", "8", "1",
          "8", "8", "E", "U", "S", " ", "8", "0", "2", ".", "1", "1", "n">>,
      usb_broadcom |->
        <<"B", "r", "o", "a", "d", "c", "o", "m", " ", "B", "C", "M", "4",
          "3", "1", "4", "2", " ", "W", "i", "r", "e", "l", "e", "s", "s">>,
      usb_ATHEROS |->
        <<"A", "T", "H", "E", "R", "O", "S", " ", "A", "R", "9", "2", "7",
          "1", " ", "8", "0", "2", ".", "1", "1", "n">>,
      usb_hub |->
        <<"L", "i", "n", "u", "x", " ", "F", "o", "u", "n", "d", "a", "t",
          "i", "o", "n", " ", "r", "o", "o", "t", " ", "h", "u", "b">> ]

(***************************************************************************)
(* DriverManager._load_offline_drivers: the driver table.  A dict is a     *)
(* sequence of entries in insertion order, which is the order              *)
(* `.items()` iterates in.                                                 *)
(***************************************************************************)
offline_db ==
    << [key |-> "atheros",
        packages |-> <<"firmware-atheros", "firmware-linux-nonfree">>,
        modules  |-> <<"ath9k", "ath9k_common", "ath9k_hw">>,
        devices  |-> <<Literals.Atheros, Literals.AR93, Literals.AR94, Literals.AR95>>],
       [key |-> "realtek",
        packages |-> <<"firmware-realtek", "firmware-linux-nonfree">>,
        modules  |-> <<"rtl8192cu", "rtl8xxxu", "rt2800usb">>,
        devices  |-> <<Literals.Realtek, Literals.RTL81, Literals.RTL82>>],
       [key |-> "intel",
        packages |-> <<"firmware-iwlwifi", "firmware-linux">>,
        modules  |-> <<"iwlwifi", "iwlmvm">>,
        devices  |-> <<Literals.Intel, Literals.Centrino, Literals.Wireless_AC>>],
       [key |-> "broadcom",
        packages |-> <<"firmware-brcm80211", "b43-fwcutter">>,
        modules  |-> <<"brcmsmac", "b43">>,
        devices  |-> <<Literals.Broadcom, Literals.BCM43>>] >>

\* A definitions file drivers/common_drivers.json an installation may hold:
\* it restates three built-in families with lower-case markers and adds a
\* family of its own.
file_db_lowercase ==
    << [key |-> "realtek",
        packages |-> <<"firmware-realtek">>,
        modules  |-> <<"rtl8xxxu">>,
        devices  |-> <<Literals.realtek>>],
       [key |-> "mediatek",
        packages |-> <<"firmware-misc-nonfree">>,
        modules  |-> <<"mt7921e">>,
        devices  |-> <<Literals.mediatek>>],
       [key |-> "atheros",
        packages |-> <<"firmware-atheros">>,
        modules  |-> <<"ath9k">>,
        devices  |-> <<Literals.atheros>>],
       [key |-> "broadcom",
        packages |-> <<"firmware-brcm80211">>,
        modules  |-> <<"b43">>,
        devices  |-> <<Literals.broadcom>>] >>

\* open('drivers/common_drivers.json') fails, json.load of it fails, or
\* json.load gives a table
FileDbEnv == {[present |-> FALSE, parses |-> FALSE, db |-> <<>>],
              [present |-> TRUE,  parses |-> FALSE, db |-> <<>>],
              [present |-> TRUE,  parses |-> TRUE,  db |-> file_db_lowercase]}

HasKey(db, k) == \E i \in 1..Len(db) : db[i].key = k
Entry(db, k)  == db[CHOOSE i \in 1..Len(db) : db[i].key = k]

\* Mutant: an existing key keeps its entry (dict.setdefault).
dict_setdefault(db, e) == IF HasKey(db, e.key) THEN db ELSE Append(db, e)

\* dict[k] = v: an existing key keeps its position, a new key goes last
dict_set(db, e) ==
    IF HasKey(db, e.key)
    THEN [i \in 1..Len(db) |-> IF db[i].key = e.key THEN e ELSE db[i]]
    ELSE Append(db, e)

\* dict.update(other)
RECURSIVE dict_update(_, _)
dict_update(db, other) ==
    IF other = <<>> THEN db
    ELSE dict_update(dict_set(db, Head(other)), Tail(other))

\* try: open, json.load, offline_db.update(file_db)
\* except: (anything) log a warning; return offline_db
_load_offline_drivers(file) ==
    IF file.present /\ file.parses THEN dict_update(offline_db, file.db)
    ELSE offline_db

(***************************************************************************)
(* DriverManager._detect_wifi_hardware                                     *)
(***************************************************************************)
\* How many lines a listing tool prints in the modelled environments.
MaxLines == 1

\* The devices a machine may have, in the order the tool lists them.
PciVocab ==
    <<Lines.pci_atheros, Lines.pci_intel, Lines.pci_iwlwifi, Lines.pci_mediatek,
      Lines.pci_ethernet>>
UsbVocab == <<Lines.usb_realtek, Lines.usb_broadcom, Lines.usb_ATHEROS, Lines.usb_hub>>

RECURSIVE Pick(_, _, _)
Pick(vocab, I, i) ==
    IF i > Len(vocab) THEN <<>>
    ELSE (IF i \in I THEN <<vocab[i]>> ELSE <<>>) \o Pick(vocab, I, i + 1)

ToolOutputs(vocab) ==
    {Pick(vocab, I, 1) :
        I \in {J \in SUBSET (1..Len(vocab)) : Cardinality(J) <= MaxLines}}

ToolEnv(vocab) ==
    {[start |-> FALSE, lines |-> <<>>]} \cup
    [start : {TRUE}, lines : ToolOutputs(vocab)]

DetectEnv == [lspci : ToolEnv(PciVocab), lsusb : ToolEnv(UsbVocab)]

\* 'Network controller' in line or 'Wireless' in line.lower()
pci_match(line) ==
    Contains(line, Literals.Network_controller) \/ Contains(Lower(line), Literals.Wireless)

\* 'Wireless' in line or '802.11' in line
usb_match(line) ==
    Contains(line, Literals.Wireless) \/ Contains(line, Literals.dot11)

\* The lines matched (wifi_devices) and the descriptor returned.
_detect_wifi_hardware(env) ==
    IF ~env.lspci.start
    THEN [wifi_devices |-> <<>>, val |-> Literals.Unknown]       \* except: "Unknown"
    ELSE LET pci == SelectSeq(env.lspci.lines, pci_match)
         IN  IF ~env.lsusb.start
             THEN [wifi_devices |-> pci, val |-> Literals.Unknown]
             ELSE LET wifi_devices == pci \o SelectSeq(env.lsusb.lines, usb_match)
                  IN  [wifi_devices |-> wifi_devices,
                       val |-> IF wifi_devices # <<>>
                               THEN Join(wifi_devices, Literals.comma_space)
                               ELSE Literals.Unknown]

(***************************************************************************)
(* DriverManager._get_driver_packages                                      *)
(***************************************************************************)
baseline_packages ==
    {"firmware-linux", "firmware-linux-nonfree", "wireless-tools", "wpasupplicant"}

\* Mutant: realtek is looked for before atheros.
_get_driver_packages_realtek_first(hw_info) ==
    LET hardware_lower == Lower(hw_info)
    IN  baseline_packages \cup
        (IF Contains(hardware_lower, Literals.realtek) THEN {"firmware-realtek"}
         ELSE IF Contains(hardware_lower, Literals.atheros) THEN {"firmware-atheros"}
         ELSE IF Contains(hardware_lower, Literals.intel) \/ Contains(hardware_lower, Literals.iwlwifi)
              THEN {"firmware-iwlwifi"}
         ELSE IF Contains(hardware_lower, Literals.broadcom)
              THEN {"firmware-brcm80211", "b43-fwcutter"}
         ELSE {})

\* list(set(packages)): the candidates, without duplicates
_get_driver_packages(hw_info) ==
    LET hardware_lower == Lower(hw_info)
    IN  baseline_packages \cup
        (IF Contains(hardware_lower, Literals.atheros) THEN {"firmware-atheros"}
         ELSE IF Contains(hardware_lower, Literals.realtek) THEN {"firmware-realtek"}
         ELSE IF Contains(hardware_lower, Literals.intel) \/ Contains(hardware_lower, Literals.iwlwifi)
              THEN {"firmware-iwlwifi"}
         ELSE IF Contains(hardware_lower, Literals.broadcom)
              THEN {"firmware-brcm80211", "b43-fwcutter"}
         ELSE {})

(***************************************************************************)
(* Kernel modules.  modprobe either cannot be started, or loads exactly    *)
(* the modules the running kernel has.                                     *)
(***************************************************************************)
LoadableCandidates == {"ath9k", "rtl8xxxu"}
ModprobeEnv ==
    {[startable |-> FALSE, loadable |-> {}]} \cup
    [startable : {TRUE}, loadable : SUBSET LoadableCandidates]

\* Where only the attempt matters (the callers ignore what a load returns):
\* modprobe cannot be started, loads nothing, or loads every candidate.
ModprobeEnvCoarse ==
    {[startable |-> FALSE, loadable |-> {}],
     [startable |-> TRUE,  loadable |-> {}],
     [startable |-> TRUE,  loadable |-> LoadableCandidates]}

modprobe_outcome(module, mp) ==
    IF ~mp.startable THEN "nostart"
    ELSE IF module \in mp.loadable THEN "ok" ELSE "nonzero"

LogEntry(cmd, arg) == [cmd |-> cmd, arg |-> arg]

\* try: subprocess.run(['modprobe', module], check=True); return True
\* except subprocess.CalledProcessError: return False
_load_kernel_module(module, mp) ==
    LET e == subprocess_run(modprobe_outcome(module, mp), TRUE)
    IN  IF e = "none" THEN Return(TRUE)
        ELSE IF except_CalledProcessError(e) THEN Return(FALSE)
        ELSE Raise(e)

\* for module in modules: self._load_kernel_module(module)
\* val counts the modules loaded; log gets one entry per attempt.
RECURSIVE load_loop(_, _, _, _, _)
load_loop(modules, i, mp, log, loaded) ==
    IF i > Len(modules) THEN [exc |-> "none", val |-> loaded, log |-> log]
    ELSE LET r    == _load_kernel_module(modules[i], mp)
             log1 == Append(log, LogEntry("modprobe", modules[i]))
         IN  IF r.exc # "none"
             THEN [exc |-> r.exc, val |-> loaded, log |-> log1]
             ELSE load_loop(modules, i + 1, mp, log1,
                            IF r.val THEN loaded + 1 ELSE loaded)

wifi_modules ==
    <<"ath9k", "ath9k_common", "ath9k_hw", "ath10k_pci", "rt2800usb",
      "rt2x00usb", "iwlwifi", "rtl8192cu", "rtl8xxxu">>

_load_wifi_modules(mp, log) == load_loop(wifi_modules, 1, mp, log, 0)

(***************************************************************************)
(* DriverManager: the tiers of install_required_drivers.  A tier returns   *)
(* [exc, val, log, frame]: the exception leaving it or "none", its return  *)
(* value, the external commands attempted so far, and its locals.          *)
(***************************************************************************)
\* What the install chain meets for one package: every strategy fails (in
\* its own way), or the third strategy succeeds.
PkgChainEnv ==
    {<<"nonzero", "timeout", "nostart", "nonzero">>,
     <<"nonzero", "nonzero", "ok", "nonzero">>}

NoFrame ==
    [tier |-> "none", driver_packages |-> {}, success_count |-> 0, driver_type |-> "none", modules_loaded |-> 0,
     source_build |-> FALSE]

TierResult(exc, val, log, frame) ==
    [exc |-> exc, val |-> val, log |-> log, frame |-> frame]

\* Mutant: the threshold is exclusive.
online_success_strict(success_count, n) == 10 * success_count > n * 5

\* success_count >= len(driver_packages) * 0.5   (0.5 as 5/10, exactly)
online_success(success_count, n) == 10 * success_count >= n * 5

\* driver_packages is self._get_driver_packages(hardware_info), the first
\* statement of the method, computed by the caller of this operator.
_try_online_installation(driver_packages, pkg_env, mp, log) ==
    LET chain(p)        == install_package_with_fallback(pkg_env[p])
        \* success_count += 1 for each package whose chain returns True
        success_count   == Cardinality({p \in driver_packages : chain(p).val})
        frame == [NoFrame EXCEPT !.tier = "online",
                                 !.driver_packages = driver_packages,
                                 !.success_count = success_count]
        lw == _load_wifi_modules(mp, log)
    IN  IF \E p \in driver_packages : chain(p).exc # "none"
        THEN TierResult(chain(CHOOSE p \in driver_packages : chain(p).exc # "none").exc,
                        FALSE, log, frame)
        ELSE IF lw.exc # "none"
        THEN TierResult(lw.exc, FALSE, lw.log, frame)
        ELSE TierResult("none",
                        online_success(success_count, Cardinality(driver_packages)),
                        lw.log, frame)

\* for driver_key, driver_info in self.offline_drivers.items():
\*     if any(device in hardware_lower for device in driver_info['devices']):
RECURSIVE identify_loop(_, _, _)
identify_loop(db, i, hardware_lower) ==
    IF i > Len(db) THEN "None"
    ELSE IF \E j \in 1..Len(db[i].devices) : Contains(hardware_lower, db[i].devices[j])
         THEN db[i].key
         ELSE identify_loop(db, i + 1, hardware_lower)

identify_driver_type(hw_info, db) ==
    LET hardware_lower == Lower(hw_info)
        driver_type    == identify_loop(db, 1, hardware_lower)
    IN  IF driver_type = "None" THEN "generic" ELSE driver_type

_activate_existing_drivers(driver_type, db, mp, log) ==
    IF HasKey(db, driver_type)
    THEN LET r == load_loop(Entry(db, driver_type).modules, 1, mp, log, 0)
         IN  [exc |-> r.exc, val |-> r.val > 0, log |-> r.log, loaded |-> r.val]
    ELSE [exc |-> "none", val |-> FALSE, log |-> log, loaded |-> 0]

BuildOutcomes == {"ok", "nonzero", "timeout"}
\* module_built / wl_built: whether the module the build or the vendor
\* package provides can be loaded afterwards
RealtekEnv  == [clone : BuildOutcomes, make : {"ok", "nonzero"},
                make_install : {"ok", "nonzero"}, module_built : BOOLEAN]
BroadcomEnv == [apt_sta : BuildOutcomes, wl_built : BOOLEAN]

\* os.chdir(path) on a working directory kept as its components
os_chdir(cwd, path) ==
    IF path = ".." THEN (IF cwd = <<>> THEN cwd ELSE SubSeq(cwd, 1, Len(cwd) - 1))
    ELSE Append(cwd, path)

RECURSIVE chdir_all(_, _)
chdir_all(cwd, paths) ==
    IF paths = <<>> THEN cwd ELSE chdir_all(os_chdir(cwd, Head(paths)), Tail(paths))

\* git clone, make, make install, modprobe 8188eu, all check=True, under a
\* bare except
_compile_realtek_drivers(env, mp, log) ==
    LET l1 == Append(log, LogEntry("git", "clone"))
        l2 == Append(l1, LogEntry("make", "all"))
        l3 == Append(l2, LogEntry("make", "install"))
        l4 == Append(l3, LogEntry("modprobe", "8188eu"))
        mo == IF ~mp.startable THEN "nostart"
              ELSE IF env.module_built THEN "ok" ELSE "nonzero"
        \* chdirs: the os.chdir calls made, in order
        into == <<"rtl8188eu">>
    IN  IF subprocess_run(env.clone, TRUE) # "none"
        THEN [val |-> FALSE, log |-> l1, chdirs |-> <<>>]
        ELSE IF subprocess_run(env.make, TRUE) # "none"
        THEN [val |-> FALSE, log |-> l2, chdirs |-> into]
        ELSE IF subprocess_run(env.make_install, TRUE) # "none"
        THEN [val |-> FALSE, log |-> l3, chdirs |-> into]
        ELSE IF subprocess_run(mo, TRUE) # "none"
        THEN [val |-> FALSE, log |-> l4, chdirs |-> into]
        ELSE [val |-> TRUE, log |-> l4, chdirs |-> Append(into, "..")]

\* return self._load_kernel_module('ath9k'); what it raises is caught by
\* the caller's except Exception
_compile_ath9k_drivers(mp, log) ==
    LET r == _load_kernel_module("ath9k", mp)
    IN  [val |-> r.exc = "none" /\ r.val,
         log |-> Append(log, LogEntry("modprobe", "ath9k"))]

\* apt install broadcom-sta-dkms (check), modprobe -r ... (check=False),
\* modprobe wl (check), under a bare except
_compile_broadcom_drivers(env, mp, log) ==
    LET l1 == Append(log, LogEntry("apt", "broadcom-sta-dkms"))
        l2 == Append(l1, LogEntry("modprobe", "-r"))
        l3 == Append(l2, LogEntry("modprobe", "wl"))
    IN  IF subprocess_run(env.apt_sta, TRUE) # "none" THEN [val |-> FALSE, log |-> l1]
        ELSE IF ~mp.startable THEN [val |-> FALSE, log |-> l2]
        ELSE IF subprocess_run(IF env.wl_built THEN "ok" ELSE "nonzero", TRUE) # "none"
             THEN [val |-> FALSE, log |-> l3]
        ELSE [val |-> TRUE, log |-> l3]

\* env.apt_build: the apt install of the build tools (timeout=300, no check)
_compile_drivers_from_source(driver_type, env, mp, log) ==
    LET l1 == Append(log, LogEntry("apt", "build-essential"))
    IN  IF subprocess_run(env.apt_build, FALSE) # "none"
        THEN [val |-> FALSE, log |-> l1]                \* except Exception
        ELSE CASE driver_type = "realtek"  -> _compile_realtek_drivers(env.realtek, mp, l1)
               [] driver_type = "atheros"  -> _compile_ath9k_drivers(mp, l1)
               [] driver_type = "broadcom" -> _compile_broadcom_drivers(env.broadcom, mp, l1)
               [] OTHER                    -> [val |-> FALSE, log |-> l1]

\* The build environments that matter to a driver type.
OfflineEnv(driver_type) ==
    [apt_build : CmdOutcomesT,
     realtek   : IF driver_type = "realtek" THEN RealtekEnv
                 ELSE {[clone |-> "ok", make |-> "ok", make_install |-> "ok",
                        module_built |-> TRUE]},
     broadcom  : IF driver_type = "broadcom" THEN BroadcomEnv
                 ELSE {[apt_sta |-> "ok", wl_built |-> TRUE]}]

\* driver_type is identify_driver_type(hardware_info, self.offline_drivers),
\* the first part of the method, computed by the caller of this operator.
_try_offline_installation(driver_type, db, env, mp, log) ==
    LET act   == _activate_existing_drivers(driver_type, db, mp, log)
        comp  == _compile_drivers_from_source(driver_type, env, mp, act.log)
        frame == [NoFrame EXCEPT !.tier = "offline",
                                 !.driver_type = driver_type,
                                 !.modules_loaded = act.loaded]
    IN  IF act.exc # "none" THEN TierResult(act.exc, FALSE, act.log, frame)
        ELSE IF act.val THEN TierResult("none", TRUE, act.log, frame)
        ELSE TierResult("none", comp.val, comp.log,
                        [frame EXCEPT !.source_build = TRUE])

generic_packages ==
    <<"firmware-linux", "firmware-linux-nonfree", "wireless-tools",
      "wpasupplicant", "net-tools", "iw">>

Range(s) == {s[i] : i \in 1..Len(s)}

\* each install (pkg_env: what the chain meets for each package) is wrapped
\* in try/except Exception and its result is dropped; then _load_wifi_modules
_install_generic_drivers(pkg_env, mp, log) ==
    LET frame == [NoFrame EXCEPT !.tier = "generic",
                                 !.driver_packages = Range(generic_packages)]
        lw == _load_wifi_modules(mp, log)
    IN  TierResult(lw.exc, FALSE, lw.log, frame)

all_modules ==
    <<"ath9k", "ath9k_common", "ath9k_hw", "ath10k_pci", "rtl8192cu",
      "rtl8xxxu", "rt2800usb", "rt2x00usb", "iwlwifi", "iwlmvm", "brcmsmac",
      "b43", "wl">>

\* rfkill and systemctl run with check=False and no timeout: only a command
\* that cannot be started raises
EmergencyEnv == [mp : ModprobeEnvCoarse, rfkill : CmdOutcomesNT, systemctl : CmdOutcomesNT]

_emergency_driver_installation(env, log) ==
    LET lm == load_loop(all_modules, 1, env.mp, log, 0)
        l1 == Append(lm.log, LogEntry("rfkill", "unblock"))
        l2 == Append(l1, LogEntry("systemctl", "restart"))
        e1 == subprocess_run(env.rfkill, FALSE)
        e2 == subprocess_run(env.systemctl, FALSE)
        frame == [NoFrame EXCEPT !.tier = "emergency", !.modules_loaded = lm.val]
    IN  IF lm.exc # "none" THEN TierResult(lm.exc, FALSE, lm.log, frame)
        ELSE IF e1 # "none" THEN TierResult(e1, FALSE, l1, frame)
        ELSE IF e2 # "none" THEN TierResult(e2, FALSE, l2, frame)
        ELSE TierResult("none", FALSE, l2, frame)

(***************************************************************************)
(* DriverManager.install_required_drivers: what follows each tier.         *)
(***************************************************************************)
\* if not hardware_info: self._install_generic_drivers(); return
step_after_detect(hw) == IF hw = <<>> THEN "generic" ELSE "online"

\* Mutant: the offline attempt follows the online attempt whatever it returned.
step_after_online_always_offline(r) ==
    IF r.exc # "none" THEN "emergency" ELSE "offline"

\* if self._try_online_installation(hardware_info): ...; return
step_after_online(r) ==
    IF r.exc # "none" THEN "emergency"          \* except Exception
    ELSE IF r.val THEN "returned"
    ELSE "offline"

\* if self._try_offline_installation(hardware_info): ...; return
step_after_offline(r) ==
    IF r.exc # "none" THEN "emergency"
    ELSE IF r.val THEN "returned"
    ELSE "generic"

\* self._install_generic_drivers() is the last statement of the try block
step_after_generic(r) == IF r.exc # "none" THEN "emergency" ELSE "returned"

\* the handler's own exceptions leave install_required_drivers
step_after_emergency(r) == IF r.exc # "none" THEN "raised" ELSE "returned"

\* Mutant: the flag is set once the attempt has run, whatever it returned.
flag_after_any(r, flag) == IF r.exc = "none" THEN TRUE ELSE flag

\* Mutant: the flag is assigned the attempt's result.
flag_after_assigns_result(r, flag) == r.exc = "none" /\ r.val

\* self.drivers_installed = True, on the success branch only
flag_after(r, flag) == IF r.exc = "none" /\ r.val THEN TRUE ELSE flag

verdict_of(r) ==
    IF r.exc # "none" THEN "raised" ELSE IF r.val THEN "success" ELSE "failed"

\* What a call hands to its caller: every `return` of the function is bare.
Unset     == [kind |-> "unset"]
NoneValue == [kind |-> "None"]

return_value(pc, r, ret) == IF pc = "returned" THEN NoneValue ELSE ret

NoVerdict == [online |-> "none", offline |-> "none"]

(***************************************************************************)
(* SystemHealth.comprehensive_health_check and its probes.                 *)
(***************************************************************************)
\* _check_disk_space(min_gb=2): usage.free / (1024**3) >= min_gb
\* Free bytes are kept as whole MiB plus a remainder below one MiB, so that
\* 2 GiB stays inside TLC's integers: free / 1024**3 >= min_gb exactly when
\* the whole MiB number at least min_gb * 1024.
min_gb == 2
MiB == 1024 * 1024
MiB_PER_GiB == 1024

\* What the machine answers to each probe.  The three probes that gate the
\* verdict get every way their call can end; the others one passing and one
\* failing answer each.
SysHealthEnv ==
    [disk     : {[raises |-> TRUE, free_mib |-> 0, free_rem |-> 0],
                 [raises |-> FALSE, free_mib |-> 0, free_rem |-> 0],
                 [raises |-> FALSE, free_mib |-> min_gb * MiB_PER_GiB - 1,
                  free_rem |-> MiB - 1],
                 [raises |-> FALSE, free_mib |-> min_gb * MiB_PER_GiB,
                  free_rem |-> 0]},
     apt      : CmdOutcomesNT,                   \* apt --version
     ping     : CmdOutcomesNT,                   \* ping -c 1 -W 3 8.8.8.8
     memory   : {"adequate", "below"},
     cpu      : {"ok", "raises"},
     sources  : {"kali_http", "missing"},
     gpg      : {"ok_kali", "nostart"},
     dpkg     : {"ok_empty", "ok_output"},
     cache    : {"fresh", "stale"},
     nslookup : {"ok", "nonzero"},
     wifi_hw  : {"pci", "none"},
     services : {1, 0},                          \* services reported `active`
     tools    : BOOLEAN]                         \* /proc, iwconfig, lsusb, lspci,
                                                 \* lsmod, ufw, apt list answer

\* try: return shutil.disk_usage("/").free / (1024**3) >= min_gb
\* except Exception: return False
SystemHealth_check_disk_space(env) ==
    IF env.raises THEN FALSE ELSE env.free_mib >= min_gb * MiB_PER_GiB

\* try: return subprocess.run(...).returncode == 0 / except: return False
returncode_is_zero(outcome) ==
    subprocess_run(outcome, FALSE) = "none" /\ outcome = "ok"

_check_system_health(env) ==
    [disk_space_adequate |-> SystemHealth_check_disk_space(env.disk),
     memory_adequate     |-> env.memory = "adequate",
     cpu_healthy         |-> env.cpu = "ok",
     kernel_version      |-> IF env.tools THEN "Linux version" ELSE "Unknown",
     uptime              |-> IF env.tools THEN "hours" ELSE "Unknown"]

_check_package_manager_health(env) ==
    [apt_working        |-> returncode_is_zero(env.apt),
     sources_valid      |-> env.sources = "kali_http",
     gpg_keys_valid     |-> env.gpg = "ok_kali",
     no_broken_packages |-> env.dpkg = "ok_empty",
     cache_updated      |-> env.cache = "fresh"]

_check_network_health(env) ==
    [internet_connectivity    |-> returncode_is_zero(env.ping),
     dns_working              |-> returncode_is_zero(env.nslookup),
     wifi_hardware_present    |-> env.wifi_hw = "pci",
     network_services_running |-> env.services >= 1]

_check_hardware_health(env) ==
    [wifi_devices   |-> IF env.tools /\ env.wifi_hw = "pci" THEN <<"wlan0">> ELSE <<>>,
     usb_devices    |-> IF env.tools THEN <<"Bus 001">> ELSE <<>>,
     pci_devices    |-> IF env.tools THEN <<"00:00.0">> ELSE <<>>,
     kernel_modules |-> IF env.tools THEN <<"cfg80211">> ELSE <<>>]

_check_security_health(env) ==
    [firewall_status |-> IF env.tools THEN "Disabled" ELSE "Unknown",
     root_user       |-> TRUE,
     system_updates  |-> IF env.tools THEN "Up to date" ELSE "Unknown"]

\* Python's all() over a list
all(checks) == \A i \in 1..Len(checks) : checks[i]

\* Mutant: the sources probe gates the verdict as well.
critical_checks_with_sources(report) ==
    <<report.package_manager.apt_working,
      report.system.disk_space_adequate,
      report.network.internet_connectivity,
      report.package_manager.sources_valid>>

critical_checks(report) ==
    <<report.package_manager.apt_working,
      report.system.disk_space_adequate,
      report.network.internet_connectivity>>

comprehensive_health_check(env) ==
    LET report == [system          |-> _check_system_health(env),
                   package_manager |-> _check_package_manager_health(env),
                   network         |-> _check_network_health(env),
                   hardware        |-> _check_hardware_health(env),
                   security        |-> _check_security_health(env),
                   overall_health  |-> TRUE]
    IN  [report EXCEPT !.overall_health = all(critical_checks(report))]

(***************************************************************************)
(* PackageManager.repair_system_health and its remediation routines.       *)
(***************************************************************************)
\* What the machine does to the commands and files of the remediations.
RepairEnv ==
    [pkill   : {"ok", "nostart"},
     locks   : {"none", "OSError"},          \* os.remove on a lock file
     dpkg    : CmdOutcomesNT,
     apt     : CmdOutcomesT,
     sources : {"written", "OSError"},       \* rename + open(..., 'w')
     wget    : CmdOutcomesNT]

\* os.path.exists / os.remove over the lock files; no handler of its own
_remove_lock_files(env) == env.locks

\* pkill twice, the lock files, dpkg --configure, then three apt commands
\* of which only a timeout is handled
_emergency_apt_repair(env) ==
    LET pkill == subprocess_run(env.pkill, FALSE)
        locks == _remove_lock_files(env)
        dpkg  == subprocess_run(env.dpkg, FALSE)
        apt   == subprocess_run(env.apt, FALSE)
    IN  IF pkill # "none" THEN pkill
        ELSE IF locks # "none" THEN locks
        ELSE IF dpkg # "none" THEN dpkg
        ELSE IF apt = "TimeoutExpired" THEN "none"
        ELSE apt

\* try: backup, write / except Exception: log
_fix_sources_list(env) ==
    LET e == IF env.sources = "OSError" THEN "OSError" ELSE "none"
    IN  IF e = "none" \/ except_Exception(e) THEN "none" ELSE e

\* try: wget, apt-key add / except Exception; then
\* try: apt install --reinstall (check=True) / except Exception
_fix_gpg_keys(env) ==
    LET e1 == subprocess_run(env.wget, FALSE)
        e2 == subprocess_run(env.apt, TRUE)
    IN  IF e1 # "none" /\ ~except_Exception(e1) THEN e1
        ELSE IF e1 = "none" /\ env.wget = "ok" THEN "none"
        ELSE IF e2 = "none" \/ except_Exception(e2) THEN "none" ELSE e2

\* for cmd in cleanup_commands: try: run / except Exception: log
_free_up_disk_space(env) ==
    LET e == subprocess_run(env.apt, FALSE)
    IN  IF e = "none" \/ except_Exception(e) THEN "none" ELSE e

\* the four `if not health_status[key]: routine()` statements, in order
repairs ==
    <<[key |-> "apt_working",         routine |-> "_emergency_apt_repair"],
      [key |-> "sources_valid",       routine |-> "_fix_sources_list"],
      [key |-> "gpg_keys_valid",      routine |-> "_fix_gpg_keys"],
      [key |-> "disk_space_adequate", routine |-> "_free_up_disk_space"]>>

call_repair(routine, env) ==
    CASE routine = "_emergency_apt_repair" -> _emergency_apt_repair(env)
      [] routine = "_fix_sources_list"     -> _fix_sources_list(env)
      [] routine = "_fix_gpg_keys"         -> _fix_gpg_keys(env)
      [] routine = "_free_up_disk_space"   -> _free_up_disk_space(env)

\* health_status[key] raises KeyError when the dict has no such key
RECURSIVE repair_loop(_, _, _, _)
repair_loop(report, env, i, actions) ==
    IF i > Len(repairs) THEN [exc |-> "none", actions |-> actions]
    ELSE IF repairs[i].key \notin DOMAIN report
         THEN [exc |-> "KeyError", actions |-> actions]
         ELSE IF ~report[repairs[i].key]
              THEN LET e == call_repair(repairs[i].routine, env)
                       now == Append(actions, repairs[i].routine)
                   IN  IF e # "none" THEN [exc |-> e, actions |-> now]
                       ELSE repair_loop(report, env, i + 1, now)
              ELSE repair_loop(report, env, i + 1, actions)

repair_system_health(report, env) == repair_loop(report, env, 1, <<>>)

(***************************************************************************)
(* PackageManager.fix_package_management and its five repair actions.      *)
(***************************************************************************)
FixEnv ==
    [locks      : {"none", "OSError"},       \* os.remove on a lock file
     dpkg       : CmdOutcomesT,              \* dpkg --configure -a
     fix_broken : CmdOutcomesT,              \* apt --fix-broken / --fix-missing
     clean      : CmdOutcomesT,              \* apt clean / autoclean / autoremove
     update     : CmdOutcomesT,              \* apt update
     deps       : CmdOutcomesT]              \* apt install -f -y

\* Mutant: the metadata refresh comes before the cache clean.
fixes_update_first ==
    <<"_remove_lock_files", "_fix_broken_packages", "_update_package_lists",
      "_clean_apt_cache", "_fix_missing_dependencies">>

\* fixes = [...]
fixes ==
    <<"_remove_lock_files", "_fix_broken_packages", "_clean_apt_cache",
      "_update_package_lists", "_fix_missing_dependencies">>

\* The exception that leaves the repair action, or "none".  Every command
\* is run with check=True and a timeout; what the action's own handlers
\* catch differs from action to action.
call_fix(name, env) ==
    LET run(outcome) == subprocess_run(outcome, TRUE)
        unless(e, handled) == IF e \in handled THEN "none" ELSE e
    IN  CASE name = "_remove_lock_files" -> _remove_lock_files(env)
          [] name = "_fix_broken_packages" ->
                \* per command: except CalledProcessError / except TimeoutExpired
                LET e1 == unless(run(env.dpkg), {"CalledProcessError", "TimeoutExpired"})
                    e2 == unless(run(env.fix_broken), {"CalledProcessError", "TimeoutExpired"})
                IN  IF e1 # "none" THEN e1 ELSE e2
          [] name = "_clean_apt_cache" ->
                unless(run(env.clean), {"CalledProcessError"})
          [] name = "_update_package_lists" ->
                unless(run(env.update), {"CalledProcessError"})
          [] name = "_fix_missing_dependencies" ->
                unless(run(env.deps), {"CalledProcessError"})

\* for fix_func in fixes: try: fix_func(); time.sleep(2)
\*                        except Exception: log
RECURSIVE fix_loop(_, _, _, _)
fix_loop(env, i, ran, failed) ==
    IF i > Len(fixes) THEN [exc |-> "none", ran |-> ran, failed |-> failed]
    ELSE LET e   == call_fix(fixes[i], env)
             now == Append(ran, fixes[i])
         IN  IF e = "none" THEN fix_loop(env, i + 1, now, failed)
             ELSE IF except_Exception(e)
                  THEN fix_loop(env, i + 1, now, failed \cup {fixes[i]})
                  ELSE [exc |-> e, ran |-> now, failed |-> failed \cup {fixes[i]}]

fix_package_management(env) == fix_loop(env, 1, <<>>, {})

(***************************************************************************)
(* ErrorHandler (src/src/error_handler.py): handle_error matches the       *)
(* failure against a table of patterns, runs the routines of the matching  *)
(* entries, and falls back to an analysis of the message.                  *)
(***************************************************************************)
\* The texts of error_handler.py (table patterns, keywords) and of the
\* failures handed to it (type names, messages), spelled out.
ErrorText ==
    [ pat_PermissionError |->
        <<"P", "e", "r", "m", "i", "s", "s", "i", "o", "n", "E", "r", "r",
          "o", "r">>,
      pat_FileNotFoundError |->
        <<"F", "i", "l", "e", "N", "o", "t", "F", "o", "u", "n", "d", "E",
          "r", "r", "o", "r">>,
      pat_CalledProcessError |->
        <<"s", "u", "b", "p", "r", "o", "c", "e", "s", "s", ".", "C", "a",
          "l", "l", "e", "d", "P", "r", "o", "c", "e", "s", "s", "E", "r",
          "r", "o", "r">>,
      pat_OSError |->
        <<"O", "S", "E", "r", "r", "o", "r">>,
      pat_ConnectionError |->
        <<"C", "o", "n", "n", "e", "c", "t", "i", "o", "n", "E", "r", "r",
          "o", "r">>,
      PermissionError |->
        <<"P", "e", "r", "m", "i", "s", "s", "i", "o", "n", "E", "r", "r",
          "o", "r">>,
      FileNotFoundError |->
        <<"F", "i", "l", "e", "N", "o", "t", "F", "o", "u", "n", "d", "E",
          "r", "r", "o", "r">>,
      CalledProcessError |->
        <<"C", "a", "l", "l", "e", "d", "P", "r", "o", "c", "e", "s", "s",
          "E", "r", "r", "o", "r">>,
      OSError |->
        <<"O", "S", "E", "r", "r", "o", "r">>,
      ConnectionError |->
        <<"C", "o", "n", "n", "e", "c", "t", "i", "o", "n", "E", "r", "r",
          "o", "r">>,
      KeyError |->
        <<"K", "e", "y", "E", "r", "r", "o", "r">>,
      RuntimeError |->
        <<"R", "u", "n", "t", "i", "m", "e", "E", "r", "r", "o", "r">>,
      msg_denied |->
        <<"[", "E", "r", "r", "n", "o", " ", "1", "3", "]", " ", "P", "e",
          "r", "m", "i", "s", "s", "i", "o", "n", " ", "d", "e", "n", "i",
          "e", "d">>,
      msg_no_file |->
        <<"[", "E", "r", "r", "n", "o", " ", "2", "]", " ", "N", "o", " ",
          "s", "u", "c", "h", " ", "f", "i", "l", "e">>,
      msg_exit_status |->
        <<"r", "e", "t", "u", "r", "n", "e", "d", " ", "n", "o", "n", "-",
          "z", "e", "r", "o", " ", "e", "x", "i", "t", " ", "s", "t", "a",
          "t", "u", "s", " ", "1">>,
      msg_key |->
        <<"'", "a", "p", "t", "_", "w", "o", "r", "k", "i", "n", "g", "'">>,
      msg_unreachable |->
        <<"N", "e", "t", "w", "o", "r", "k", " ", "i", "s", " ", "u", "n",
          "r", "e", "a", "c", "h", "a", "b", "l", "e">>,
      msg_dpkg |->
        <<"d", "p", "k", "g", " ", "w", "a", "s", " ", "i", "n", "t", "e",
          "r", "r", "u", "p", "t", "e", "d">>,
      msg_firmware |->
        <<"f", "i", "r", "m", "w", "a", "r", "e", " ", "m", "i", "s", "s",
          "i", "n", "g">>,
      msg_space |->
        <<"N", "o", " ", "s", "p", "a", "c", "e", " ", "l", "e", "f", "t">>,
      msg_names_two |->
        <<"P", "e", "r", "m", "i", "s", "s", "i", "o", "n", "E", "r", "r",
          "o", "r", ",", " ", "O", "S", "E", "r", "r", "o", "r">>,
      msg_disk_full |->
        <<"D", "i", "s", "k", " ", "f", "u", "l", "l">>,
      msg_driver_space |->
        <<"d", "r", "i", "v", "e", "r", ":", " ", "n", "o", " ", "s", "p",
          "a", "c", "e", " ", "l", "e", "f", "t">>,
      Permission_denied |->
        <<"P", "e", "r", "m", "i", "s", "s", "i", "o", "n", " ", "d", "e",
          "n", "i", "e", "d">>,
      broken |->
        <<"b", "r", "o", "k", "e", "n">>,
      dependency |->
        <<"d", "e", "p", "e", "n", "d", "e", "n", "c", "y">>,
      dpkg |->
        <<"d", "p", "k", "g">>,
      network |->
        <<"n", "e", "t", "w", "o", "r", "k">>,
      connection |->
        <<"c", "o", "n", "n", "e", "c", "t", "i", "o", "n">>,
      unreachable |->
        <<"u", "n", "r", "e", "a", "c", "h", "a", "b", "l", "e">>,
      driver |->
        <<"d", "r", "i", "v", "e", "r">>,
      firmware |->
        <<"f", "i", "r", "m", "w", "a", "r", "e">>,
      module |->
        <<"m", "o", "d", "u", "l", "e">>,
      memory |->
        <<"m", "e", "m", "o", "r", "y">>,
      space |->
        <<"s", "p", "a", "c", "e">>,
      disk |->
        <<"d", "i", "s", "k">> ]

\* The failures handed to handle_error: type(error).__name__ and str(error),
\* each a key of ErrorText.
Errors ==
    [type : {"PermissionError", "FileNotFoundError", "CalledProcessError",
             "OSError", "ConnectionError", "KeyError", "RuntimeError"},
     msg  : {"msg_denied", "msg_no_file", "msg_exit_status", "msg_key",
             "msg_unreachable", "msg_dpkg", "msg_firmware", "msg_space",
             "msg_names_two", "msg_disk_full", "msg_driver_space"}]

\* What the commands and calls of the repair routines do: chmod +x of the
\* tool's scripts, os.makedirs, systemctl daemon-reload, systemctl restart,
\* and the remaining tools (chown, fsck, modprobe, nmcli, ip, rfkill, apt,
\* journalctl), which are run with check=False.
TriageEnv ==
    [chmod         : CmdOutcomesNT,
     makedirs      : {"none", "OSError"},
     daemon_reload : CmdOutcomesNT,
     restart       : CmdOutcomesNT,
     tools         : {"ok", "nostart"}]

\* the first exception of a sequence of statements, or "none"
first_exc(excs) ==
    IF \A i \in 1..Len(excs) : excs[i] = "none" THEN "none"
    ELSE excs[CHOOSE i \in 1..Len(excs) :
                  excs[i] # "none" /\ \A j \in 1..(i - 1) : excs[j] = "none"]

\* error_pattern in error_type or error_pattern in error_msg
pattern_matches(pattern, error) ==
    \/ Contains(ErrorText[error.type], ErrorText[pattern])
    \/ Contains(ErrorText[error.msg], ErrorText[pattern])

\* Mutant: the os-error entry is consulted first.
error_handlers_os_first ==
    <<[pattern |-> "pat_OSError", handler |-> "_fix_os_errors"],
      [pattern |-> "pat_PermissionError", handler |-> "_fix_permission_issues"],
      [pattern |-> "pat_FileNotFoundError", handler |-> "_fix_missing_files"],
      [pattern |-> "pat_CalledProcessError", handler |-> "_fix_subprocess_errors"],
      [pattern |-> "pat_ConnectionError", handler |-> "_fix_connection_issues"]>>

\* The table, in the insertion order of the dict.
error_handlers ==
    <<[pattern |-> "pat_PermissionError", handler |-> "_fix_permission_issues"],
      [pattern |-> "pat_FileNotFoundError", handler |-> "_fix_missing_files"],
      [pattern |-> "pat_CalledProcessError", handler |-> "_fix_subprocess_errors"],
      [pattern |-> "pat_OSError", handler |-> "_fix_os_errors"],
      [pattern |-> "pat_ConnectionError", handler |-> "_fix_connection_issues"]>>

\* handler(context), context = None: the body runs under try / except
\* Exception, so the routine returns True when no statement raised and
\* False otherwise.
call_handler(handler, env) ==
    LET checked(o)   == subprocess_run(o, TRUE)
        unchecked(o) == subprocess_run(o, FALSE)
        e == CASE handler = "_fix_permission_issues" ->
                    first_exc(<<checked(env.chmod), checked(env.chmod),
                                checked(env.chmod), unchecked(env.tools),
                                unchecked(env.tools)>>)
               [] handler = "_fix_missing_files" -> env.makedirs
               [] handler = "_fix_subprocess_errors" ->
                    \* fix_package_management and
                    \* install_package_with_fallback raise nothing
                    "none"
               [] handler = "_fix_os_errors" ->
                    first_exc(<<unchecked(env.tools), unchecked(env.tools),
                                unchecked(env.tools),
                                checked(env.daemon_reload)>>)
               [] handler = "_fix_connection_issues" ->
                    first_exc(<<checked(env.restart), checked(env.restart),
                                unchecked(env.tools), unchecked(env.tools),
                                unchecked(env.tools)>>)
    IN  ~except_Exception(e)

\* Mutant: the resource keywords are looked for first.
keyword_sets_resource_first ==
    <<[words |-> {"memory", "space", "disk"}, routine |-> "_fix_resource_issues"],
      [words |-> {"broken", "dependency", "dpkg"}, routine |-> "_fix_package_system"],
      [words |-> {"network", "connection", "unreachable"},
       routine |-> "_fix_network_system"],
      [words |-> {"driver", "firmware", "module"}, routine |-> "_fix_driver_system"]>>

\* The if / elif chain of _analyze_and_fix_general: the words looked for and
\* the routine each branch calls; the else branch calls
\* _general_system_repair.
keyword_sets ==
    <<[words |-> {"broken", "dependency", "dpkg"}, routine |-> "_fix_package_system"],
      [words |-> {"network", "connection", "unreachable"},
       routine |-> "_fix_network_system"],
      [words |-> {"driver", "firmware", "module"}, routine |-> "_fix_driver_system"],
      [words |-> {"memory", "space", "disk"}, routine |-> "_fix_resource_issues"]>>

\* The routine _analyze_and_fix_general picks from the lowered message, and
\* the exception that leaves it ("none" when it returns).
_analyze_and_fix_general(error_msg, env) ==
    LET lowered == Lower(ErrorText[error_msg])
        \* any(word in error_msg.lower() for word in [...])
        any(words) == \E w \in words : Contains(lowered, ErrorText[w])
        hits == {i \in 1..Len(keyword_sets) : any(keyword_sets[i].words)}
        routine == IF hits = {} THEN "_general_system_repair"
                   ELSE keyword_sets[CHOOSE i \in hits : \A j \in hits : i <= j].routine
        unchecked(o) == subprocess_run(o, FALSE)
        exc == CASE routine = "_fix_package_system" ->
                      \* fix_package_management catches what its actions raise
                      "none"
                 [] routine = "_fix_network_system" ->
                      \* systemctl restart, rfkill unblock: no handler
                      first_exc(<<unchecked(env.restart), unchecked(env.tools)>>)
                 [] routine = "_fix_driver_system" ->
                      \* DriverManager(); troubleshoot_wifi(): handlers inside
                      "none"
                 [] routine = "_fix_resource_issues" ->
                      \* apt clean, apt autoclean, journalctl: no handler
                      first_exc(<<unchecked(env.tools), unchecked(env.tools),
                                  unchecked(env.tools)>>)
                 [] routine = "_general_system_repair" ->
                      \* try / except Exception around every command
                      "none"
    IN  [routine |-> routine, exc |-> exc]

\* for error_pattern, handler in error_handlers.items():
\*     if <matches>: if handler(context): return
\* self._analyze_and_fix_general(error_msg, context)
\* ran lists the routines run, each with what it returned.
RECURSIVE handler_loop(_, _, _, _)
handler_loop(error, env, i, ran) ==
    IF i > Len(error_handlers)
    THEN LET g == _analyze_and_fix_general(error.msg, env)
         IN  [exc |-> g.exc,
              ran |-> ran \o <<[routine |-> "_analyze_and_fix_general",
                                ret |-> g.routine]>>]
    ELSE IF pattern_matches(error_handlers[i].pattern, error)
    THEN LET ok  == call_handler(error_handlers[i].handler, env)
             now == Append(ran, [routine |-> error_handlers[i].handler,
                                 ret |-> IF ok THEN "True" ELSE "False"])
         IN  IF ok THEN [exc |-> "none", ran |-> now]
             ELSE handler_loop(error, env, i + 1, now)
    ELSE handler_loop(error, env, i + 1, ran)

handle_error(error, env) == handler_loop(error, env, 1, <<>>)

(***************************************************************************)
(* DriverManager.troubleshoot_wifi (src/src/driver_manager.py 328-349)     *)
(***************************************************************************)
\* What the commands of one invocation do.  systemctl is one executable:
\* it can be started for both restarts or for neither.
TroubleEnv ==
    {e \in [nm     : CmdOutcomesNT,          \* systemctl restart NetworkManager
            wpa    : CmdOutcomesNT,          \* systemctl restart wpa_supplicant
            mp     : ModprobeEnvCoarse,
            rfkill : CmdOutcomesNT,          \* rfkill unblock all
            ip     : CmdOutcomesNT] :        \* ip link set wlan0 up
        (e.nm = "nostart") <=> (e.wpa = "nostart")}

\* The statements of the try body, in order; a statement that raises ends
\* the body.  log: the commands attempted; loaded: the modules the reload
\* loaded; logged: the failure the handler logged; exc: what left the call.
troubleshoot_wifi(env) ==
    LET e1   == subprocess_run(env.nm, TRUE)
        log1 == <<LogEntry("systemctl", "NetworkManager")>>
        e2   == subprocess_run(env.wpa, TRUE)
        log2 == Append(log1, LogEntry("systemctl", "wpa_supplicant"))
        r3   == _load_wifi_modules(env.mp, log2)
        e4   == subprocess_run(env.rfkill, TRUE)
        log4 == Append(r3.log, LogEntry("rfkill", "unblock"))
        e5   == subprocess_run(env.ip, FALSE)
        log5 == Append(log4, LogEntry("ip", "wlan0"))
        body == IF e1 # "none" THEN [exc |-> e1, log |-> log1, loaded |-> 0]
                ELSE IF e2 # "none" THEN [exc |-> e2, log |-> log2, loaded |-> 0]
                ELSE IF r3.exc # "none"
                THEN [exc |-> r3.exc, log |-> r3.log, loaded |-> r3.val]
                ELSE IF e4 # "none"
                THEN [exc |-> e4, log |-> log4, loaded |-> r3.val]
                ELSE [exc |-> e5, log |-> log5, loaded |-> r3.val]
        \* except Exception as e: self.logger.error(...)
        caught == except_Exception(body.exc)
    IN  [log    |-> body.log,
         loaded |-> body.loaded,
         logged |-> IF caught THEN body.exc ELSE "none",
         exc    |-> IF caught THEN "none" ELSE body.exc]

(***************************************************************************)
(* utils.run_command (src/src/utils.py 28-41)                              *)
(***************************************************************************)
\* What subprocess.run(cmd, capture_output=True, text=True, timeout=...)
\* meets: the command exits with a code and its two outputs (a negative
\* code is the signal that killed it), runs past the timeout, cannot be
\* started, or prints bytes that text=True cannot decode.
CommandEnv ==
    [kind   : {"exit"},
     code   : {0, 1, 2, 126, 127, 130, 255, -1, -9, -15},
     stdout : {"", "wlan0", "wlan0\n"},
     stderr : {"", "No such device", "Command timed out"}]
    \cup
    [kind : {"timeout", "nostart", "undecodable"},
     code : {0}, stdout : {""}, stderr : {""}]

\* Mutant: there is no handler for the timeout.
run_command_no_timeout_handler(cmd) ==
    CASE cmd.kind = "exit"    -> Return(<<cmd.code, cmd.stdout, cmd.stderr>>)
      [] cmd.kind = "timeout" -> Raise("TimeoutExpired")
      [] OTHER                -> Return(<<-1, "", "error">>)

\* try: result = subprocess.run(...)
\*      return result.returncode, result.stdout, result.stderr
\* except subprocess.TimeoutExpired: return -1, "", "Command timed out"
\* except Exception as e: return -1, "", str(e)
run_command(cmd) ==
    LET e == CASE cmd.kind = "exit"        -> "none"
               [] cmd.kind = "timeout"     -> "TimeoutExpired"
               [] cmd.kind = "nostart"     -> "FileNotFoundError"
               [] cmd.kind = "undecodable" -> "UnicodeDecodeError"
        \* str(e)
        str == CASE e = "FileNotFoundError"  -> "[Errno 2] No such file or directory"
                 [] e = "UnicodeDecodeError" -> "'utf-8' codec can't decode byte"
                 [] OTHER                    -> e
    IN  IF e = "none" THEN Return(<<cmd.code, cmd.stdout, cmd.stderr>>)
        ELSE IF e = "TimeoutExpired" THEN Return(<<-1, "", "Command timed out">>)
        ELSE IF except_Exception(e) THEN Return(<<-1, "", str>>)
        ELSE Raise(e)

(***************************************************************************)
(* PackageManager: the repair steps that run a list of commands            *)
(* (src/src/package_manager.py 197-230 and 268-293).                       *)
(***************************************************************************)
\* One statement of a step: what it runs, whether with check=True, the ways
\* it can end (a timeout only where timeout=... is passed), and the
\* exceptions the try around it handles.
Stmt(cmd, check, outcomes, handled) ==
    [cmd |-> cmd, check |-> check, outcomes |-> outcomes, handled |-> handled]

repair_steps ==
    [_fix_broken_packages |->
        <<Stmt("dpkg --configure -a", TRUE, CmdOutcomesT,
               {"CalledProcessError", "TimeoutExpired"}),
          Stmt("apt --fix-broken install -y", TRUE, CmdOutcomesT,
               {"CalledProcessError", "TimeoutExpired"}),
          Stmt("apt install --fix-missing -y", TRUE, CmdOutcomesT,
               {"CalledProcessError", "TimeoutExpired"})>>,
     _clean_apt_cache |->
        <<Stmt("apt clean", TRUE, CmdOutcomesT, {"CalledProcessError"}),
          Stmt("apt autoclean", TRUE, CmdOutcomesT, {"CalledProcessError"}),
          Stmt("apt autoremove -y", TRUE, CmdOutcomesT, {"CalledProcessError"})>>,
     _emergency_apt_repair |->
        <<Stmt("pkill -f apt", FALSE, CmdOutcomesNT, {}),
          Stmt("pkill -f dpkg", FALSE, CmdOutcomesNT, {}),
          Stmt("_remove_lock_files", FALSE, {"ok", "OSError"}, {}),
          Stmt("dpkg --configure -a --force-all", FALSE, CmdOutcomesNT, {}),
          Stmt("apt update --allow-unauthenticated", FALSE, CmdOutcomesT,
               {"TimeoutExpired"}),
          Stmt("apt install --fix-broken --yes --allow-downgrades", FALSE,
               CmdOutcomesT, {"TimeoutExpired"}),
          Stmt("apt dist-upgrade --yes", FALSE, CmdOutcomesT,
               {"TimeoutExpired"})>>]

StepOutcomes == CmdOutcomesT \cup {"OSError"}

\* What the machine does to each statement of a step.
StepEnv ==
    UNION {{[step |-> s, outs |-> o] :
               o \in {f \in [1..Len(repair_steps[s]) -> StepOutcomes] :
                          \A i \in 1..Len(repair_steps[s]) :
                              f[i] \in repair_steps[s][i].outcomes}} :
           s \in DOMAIN repair_steps}

\* The exception a statement raises, or "none": os.remove raises OSError,
\* a command what subprocess.run raises.
stmt_exc(stmt, outcome) ==
    IF outcome = "OSError" THEN "OSError" ELSE subprocess_run(outcome, stmt.check)

\* Mutant: a handled failure ends the step.
RECURSIVE step_loop_stops_at_failure(_, _, _, _)
step_loop_stops_at_failure(stmts, outs, i, log) ==
    IF i > Len(stmts) THEN [exc |-> "none", log |-> log]
    ELSE LET e   == stmt_exc(stmts[i], outs[i])
             now == Append(log, stmts[i].cmd)
         IN  IF e = "none" THEN step_loop_stops_at_failure(stmts, outs, i + 1, now)
             ELSE IF e \in stmts[i].handled THEN [exc |-> "none", log |-> now]
             ELSE [exc |-> e, log |-> now]

\* for cmd in commands: try: subprocess.run(cmd, ...)
\*                      except <handled>: log
\* and the statements before the loop, which have no try around them
RECURSIVE step_loop(_, _, _, _)
step_loop(stmts, outs, i, log) ==
    IF i > Len(stmts) THEN [exc |-> "none", log |-> log]
    ELSE LET e   == stmt_exc(stmts[i], outs[i])
             now == Append(log, stmts[i].cmd)
         IN  IF e = "none" \/ e \in stmts[i].handled
             THEN step_loop(stmts, outs, i + 1, now)
             ELSE [exc |-> e, log |-> now]

run_step(step, outs) == step_loop(repair_steps[step], outs, 1, <<>>)

(***************************************************************************)
(* The files the tool rewrites: _fix_sources_list                          *)
(* (src/src/package_manager.py 295-317), create_backup and safe_file_write *)
(* (src/src/utils.py 55-75, 177-189), and the two probes that read the     *)
(* sources file back.                                                      *)
(***************************************************************************)
\* kali_sources is the text _fix_sources_list writes; debian and
\* kali_mirror are contents a machine may have had before; the other fields
\* are the patterns the probes look for.
SourcesText ==
    [ kali_sources |->
        <<"#", " ", "K", "a", "l", "i", " ", "L", "i", "n", "u", "x", " ",
          "r", "e", "p", "o", "s", "i", "t", "o", "r", "i", "e", "s", "\n",
          "d", "e", "b", " ", "h", "t", "t", "p", ":", "/", "/", "h", "t",
          "t", "p", ".", "k", "a", "l", "i", ".", "o", "r", "g", "/", "k",
          "a", "l", "i", " ", "k", "a", "l", "i", "-", "r", "o", "l", "l",
          "i", "n", "g", " ", "m", "a", "i", "n", " ", "c", "o", "n", "t",
          "r", "i", "b", " ", "n", "o", "n", "-", "f", "r", "e", "e", "\n",
          "#", " ", "d", "e", "b", "-", "s", "r", "c", " ", "h", "t", "t",
          "p", ":", "/", "/", "h", "t", "t", "p", ".", "k", "a", "l", "i",
          ".", "o", "r", "g", "/", "k", "a", "l", "i", " ", "k", "a", "l",
          "i", "-", "r", "o", "l", "l", "i", "n", "g", " ", "m", "a", "i",
          "n", " ", "c", "o", "n", "t", "r", "i", "b", " ", "n", "o", "n",
          "-", "f", "r", "e", "e", "\n">>,
      debian |->
        <<"d", "e", "b", " ", "h", "t", "t", "p", ":", "/", "/", "d", "e",
          "b", ".", "d", "e", "b", "i", "a", "n", ".", "o", "r", "g", "/",
          "d", "e", "b", "i", "a", "n", " ", "s", "t", "a", "b", "l", "e",
          " ", "m", "a", "i", "n", "\n">>,
      kali_mirror |->
        <<"d", "e", "b", " ", "h", "t", "t", "p", "s", ":", "/", "/", "k",
          "a", "l", "i", ".", "d", "o", "w", "n", "l", "o", "a", "d", "/",
          "k", "a", "l", "i", " ", "k", "a", "l", "i", "-", "r", "o", "l",
          "l", "i", "n", "g", " ", "m", "a", "i", "n", "\n">>,
      kali_rolling |->
        <<"k", "a", "l", "i", "-", "r", "o", "l", "l", "i", "n", "g">>,
      http_kali_org |->
        <<"h", "t", "t", "p", ".", "k", "a", "l", "i", ".", "o", "r", "g">>,
      kali_download |->
        <<"k", "a", "l", "i", ".", "d", "o", "w", "n", "l", "o", "a", "d">>,
      kali |->
        <<"k", "a", "l", "i">>,
      http |->
        <<"h", "t", "t", "p">> ]

\* A path: the directory, the file name, and the timestamp of a backup name
\* (<<>> for a file that is no backup).
sources_path == [dir |-> "/etc/apt", name |-> "sources.list", stamp |-> <<>>]

\* f'/etc/apt/sources.list.backup.{int(time.time())}'
backup_name(now) == [sources_path EXCEPT !.stamp = <<now>>]

\* os.path.join('backups', f"{os.path.basename(file_path)}.backup.{timestamp}")
backup_path(file_path, now) ==
    [dir |-> "backups", name |-> file_path.name, stamp |-> <<now>>]

NoFiles == [p \in {} |-> <<>>]

os_path_exists(files, path) == path \in DOMAIN files

FileState(files, path) ==
    IF os_path_exists(files, path)
    THEN [exists |-> TRUE, content |-> files[path]]
    ELSE [exists |-> FALSE, content |-> <<>>]

\* os.rename(src, dst): dst is replaced when it exists
os_rename(files, src, dst) ==
    [p \in (DOMAIN files \ {src}) \cup {dst} |->
        IF p = dst THEN files[src] ELSE files[p]]

\* with open(path, 'w') as f: f.write(content) can end in three ways: the
\* content is written; open() raises and nothing changes; open() has
\* created or truncated the file and write() raises.
WriteOutcomes == {"ok", "open_fails", "write_fails"}

open_w_write(files, path, content, outcome) ==
    IF outcome = "open_fails" THEN files
    ELSE [p \in DOMAIN files \cup {path} |->
             IF p = path THEN (IF outcome = "ok" THEN content ELSE <<>>)
             ELSE files[p]]

RewriteEnv == [rename : {"ok", "OSError"}, write : WriteOutcomes]

\* The try body of _fix_sources_list on the files, at clock time `now`:
\* ops are the file operations performed, ok is whether the body reached
\* its end (otherwise the handler logged the failure).
rewrite_sources(files, now, env) ==
    LET exists  == os_path_exists(files, sources_path)
        renamed == IF exists THEN os_rename(files, sources_path, backup_name(now))
                   ELSE files
        ops     == IF exists THEN <<"rename">> ELSE <<>>
    IN  IF exists /\ env.rename # "ok"
        THEN [files |-> files, ops |-> ops, ok |-> FALSE]
        ELSE [files |-> open_w_write(renamed, sources_path,
                                     SourcesText.kali_sources, env.write),
              ops   |-> Append(ops, "write"),
              ok    |-> env.write = "ok"]

\* dir: the directory 'backups' is there or os.makedirs creates it ("ok"),
\* or os.makedirs raises; copy: reading the original and writing the backup.
BackupEnv == [dir  : {"ok", "OSError"},
              copy : {"ok", "read_fails", "write_fails"}]

\* create_backup(file_path): the path of the backup or "" (here <<>>);
\* os.makedirs is outside its try block
create_backup(files, now, file_path, env) ==
    LET dst == backup_path(file_path, now)
    IN  IF ~os_path_exists(files, file_path)
        THEN [exc |-> "none", val |-> <<>>, files |-> files, ops |-> <<>>]
        ELSE IF env.dir = "OSError"
        THEN [exc |-> "OSError", val |-> <<>>, files |-> files, ops |-> <<>>]
        ELSE IF env.copy = "read_fails"
        THEN [exc |-> "none", val |-> <<>>, files |-> files, ops |-> <<"backup">>]
        ELSE [exc   |-> "none",
              val   |-> IF env.copy = "ok" THEN <<dst>> ELSE <<>>,
              files |-> open_w_write(files, dst, files[file_path], env.copy),
              ops   |-> <<"backup">>]

SafeWriteEnv == [backup : BackupEnv, write : WriteOutcomes]

\* safe_file_write(file_path, content, backup=True)
safe_file_write(files, now, file_path, content, env) ==
    LET b == create_backup(files, now, file_path, env.backup)
    IN  IF b.exc # "none"
        THEN [files |-> b.files, ops |-> b.ops, val |-> FALSE]   \* except Exception
        ELSE [files |-> open_w_write(b.files, file_path, content, env.write),
              ops   |-> Append(b.ops, "write"),
              val   |-> env.write = "ok"]

\* What _check_sources_list reads from the sources file just written: the
\* first Kali pattern its content holds.
SourcesFacts(files) ==
    LET f == FileState(files, sources_path)
    IN  IF ~f.exists THEN "missing"
        ELSE IF Contains(f.content, SourcesText.kali_rolling) THEN "kali-rolling"
        ELSE IF Contains(f.content, SourcesText.http_kali_org) THEN "http.kali.org"
        ELSE IF Contains(f.content, SourcesText.kali_download) THEN "kali.download"
        ELSE "other"

\* Mutant: the probe wants an https source.
_check_sources_valid_https(file) ==
    /\ file.exists
    /\ Contains(Lower(file.content), SourcesText.kali)
    /\ Contains(file.content, <<"h", "t", "t", "p", "s">>)

\* SystemHealth._check_sources_valid:
\* return 'kali' in content.lower() and 'http' in content
_check_sources_valid(file) ==
    /\ file.exists
    /\ Contains(Lower(file.content), SourcesText.kali)
    /\ Contains(file.content, SourcesText.http)

(***************************************************************************)
(* Specification SpecInstall: one call of install_package_with_fallback    *)
(* against every environment.                                              *)
(***************************************************************************)
dmIdle ==
    /\ dm_pc = "idle"
    /\ dm_calls = 0
    /\ drivers_installed = FALSE
    /\ dm_flag_at_call = FALSE
    /\ offline_drivers = offline_db
    /\ dm_file = <<>>
    /\ hardware_info = <<>>
    /\ dm_tiers = <<>>
    /\ dm_verdict = NoVerdict
    /\ dm_frame = NoFrame
    /\ dm_log = <<>>
    /\ dm_ret = Unset

pkIdle == pk_pc = "idle" /\ pk_outs = <<>> /\ pk_invoked = <<>> /\ pk_ret = FALSE
hcIdle ==
    /\ hc_pc = "idle" /\ hc_env = <<>> /\ health_status = health_status_initial
    /\ hc_ran = <<>>

\* The objects a specification does not exercise stay as constructed;
\* `busy` names the ones it does exercise.
restIdle(busy) ==
    /\ "sh" \in busy \/ (sh_pc = "idle" /\ health_report = <<>>)
    /\ "rp" \in busy \/
           (rp_pc = "idle" /\ rp_report = <<>> /\ rp_actions = <<>> /\ rp_exc = "none")
    /\ "fp" \in busy \/
           (/\ fp_pc = "idle" /\ fp_env = <<>> /\ fp_ran = <<>>
            /\ fp_failed = {})
    /\ "he" \in busy \/ (he_pc = "idle" /\ he_error = <<>> /\ he_ran = <<>>)
    /\ "run" \in busy \/
           (/\ run_pc = "idle" /\ run_mode = "none" /\ run_trace = <<>>
            /\ run_exc = "none")
    /\ "tw" \in busy \/ tw_calls = <<>>
    /\ "rc" \in busy \/ (rc_pc = "idle" /\ rc_in = <<>> /\ rc_ret = <<>>)
    /\ "st" \in busy \/
           (st_pc = "idle" /\ st_in = <<>> /\ st_log = <<>> /\ st_exc = "none")
    /\ "fs" \in busy \/ (fs_files = <<>> /\ fs_clock = 0 /\ fs_calls = <<>>)
    /\ "bd" \in busy \/
           (bd_pc = "idle" /\ bd_in = <<>> /\ bd_cwd0 = <<>> /\ bd_cwd = <<>>)

InitInstall ==
    /\ pk_pc = "call"
    /\ pk_outs \in ChainEnv
    /\ pk_invoked = <<>>
    /\ pk_ret = FALSE
    /\ hcIdle
    /\ dmIdle
    /\ restIdle({})

InstallPackage ==
    /\ pk_pc = "call"
    /\ LET r == install_package_with_fallback(pk_outs)
       IN  /\ pk_pc' = IF r.exc = "none" THEN "returned" ELSE "raised"
           /\ pk_invoked' = r.invoked
           /\ pk_ret' = r.val
    /\ UNCHANGED <<pk_outs, hcVars, dmVars, restVars>>

NextInstall == InstallPackage

SpecInstall == InitInstall /\ [][NextInstall]_vars

(***************************************************************************)
(* Specification SpecHealth: one call of check_system_health against       *)
(* every environment.                                                      *)
(***************************************************************************)
InitHealth ==
    /\ hc_pc = "call"
    /\ hc_env \in HealthEnv
    /\ health_status = health_status_initial
    /\ hc_ran = <<>>
    /\ pkIdle
    /\ dmIdle
    /\ restIdle({})

CheckSystemHealth ==
    /\ hc_pc = "call"
    /\ LET r == check_system_health(hc_env)
       IN  /\ hc_pc' = IF r.exc = "none" THEN "returned" ELSE "raised"
           /\ health_status' = r.val
           /\ hc_ran' = r.ran
    /\ UNCHANGED <<hc_env, pkVars, dmVars, restVars>>

NextHealth == CheckSystemHealth

SpecHealth == InitHealth /\ [][NextHealth]_vars

(***************************************************************************)
(* Specification SpecDrivers: a DriverManager on which                     *)
(* install_required_drivers is invoked up to MaxCalls times, tier by tier. *)
(***************************************************************************)
MaxCalls == 2

\* DriverManager.__init__
InitDrivers ==
    /\ dm_pc = "idle"
    /\ dm_calls = 0
    /\ drivers_installed = FALSE
    /\ dm_flag_at_call = FALSE
    /\ dm_file \in FileDbEnv
    /\ offline_drivers = _load_offline_drivers(dm_file)
    /\ hardware_info = <<>>
    /\ dm_tiers = <<>>
    /\ dm_verdict = NoVerdict
    /\ dm_frame = NoFrame
    /\ dm_log = <<>>
    /\ dm_ret = Unset
    /\ pkIdle
    /\ hcIdle
    /\ restIdle({})

Call ==
    /\ dm_pc \in {"idle", "returned", "raised"}
    /\ dm_calls < MaxCalls
    /\ dm_pc' = "detect"
    /\ dm_calls' = dm_calls + 1
    /\ dm_flag_at_call' = drivers_installed
    /\ hardware_info' = <<>>
    /\ dm_tiers' = <<>>
    /\ dm_verdict' = NoVerdict
    /\ dm_frame' = NoFrame
    /\ dm_log' = <<>>
    /\ dm_ret' = Unset
    /\ UNCHANGED <<drivers_installed, offline_drivers, dm_file, pkVars, hcVars, restVars>>

Detect ==
    /\ dm_pc = "detect"
    /\ \E env \in DetectEnv :
           LET d == _detect_wifi_hardware(env)
           IN  /\ hardware_info' = d.val
               /\ dm_pc' = step_after_detect(d.val)
    /\ dm_tiers' = Append(dm_tiers, "detect")
    /\ UNCHANGED <<dm_calls, drivers_installed, dm_flag_at_call, offline_drivers, dm_file,
                   dm_verdict, dm_frame, dm_log, dm_ret, pkVars, hcVars, restVars>>

Online ==
    /\ dm_pc = "online"
    /\ LET driver_packages == _get_driver_packages(hardware_info)
       IN  \E pkg_env \in [driver_packages -> PkgChainEnv], mp \in ModprobeEnvCoarse :
               \E r \in {_try_online_installation(driver_packages, pkg_env, mp, dm_log)} :
                   /\ dm_pc' = step_after_online(r)
                   /\ drivers_installed' = flag_after(r, drivers_installed)
                   /\ dm_verdict' = [dm_verdict EXCEPT !.online = verdict_of(r)]
                   /\ dm_frame' = r.frame
                   /\ dm_log' = r.log
                   /\ dm_ret' = return_value(step_after_online(r), r, dm_ret)
    /\ dm_tiers' = Append(dm_tiers, "online")
    /\ UNCHANGED <<dm_calls, dm_flag_at_call, offline_drivers, dm_file, hardware_info,
                   pkVars, hcVars, restVars>>

Offline ==
    /\ dm_pc = "offline"
    /\ LET driver_type == identify_driver_type(hardware_info, offline_drivers)
       IN  \E env \in OfflineEnv(driver_type), mp \in ModprobeEnv :
               \E r \in {_try_offline_installation(driver_type, offline_drivers,
                                                     env, mp, dm_log)} :
                   /\ dm_pc' = step_after_offline(r)
                   /\ drivers_installed' = flag_after(r, drivers_installed)
                   /\ dm_verdict' = [dm_verdict EXCEPT !.offline = verdict_of(r)]
                   /\ dm_frame' = r.frame
                   /\ dm_log' = r.log
                   /\ dm_ret' = return_value(step_after_offline(r), r, dm_ret)
    /\ dm_tiers' = Append(dm_tiers, "offline")
    /\ UNCHANGED <<dm_calls, dm_flag_at_call, offline_drivers, dm_file, hardware_info,
                   pkVars, hcVars, restVars>>

Generic ==
    /\ dm_pc = "generic"
    /\ \E pkg_env \in [Range(generic_packages) -> PkgChainEnv], mp \in ModprobeEnvCoarse :
           \E r \in {_install_generic_drivers(pkg_env, mp, dm_log)} :
               /\ dm_pc' = step_after_generic(r)
               /\ dm_frame' = r.frame
               /\ dm_log' = r.log
               /\ dm_ret' = return_value(step_after_generic(r), r, dm_ret)
    /\ dm_tiers' = Append(dm_tiers, "generic")
    /\ UNCHANGED <<dm_calls, drivers_installed, dm_flag_at_call, offline_drivers, dm_file,
                   hardware_info, dm_verdict, pkVars, hcVars, restVars>>

Emergency ==
    /\ dm_pc = "emergency"
    /\ \E env \in EmergencyEnv :
           \E r \in {_emergency_driver_installation(env, dm_log)} :
               /\ dm_pc' = step_after_emergency(r)
               /\ dm_frame' = r.frame
               /\ dm_log' = r.log
               /\ dm_ret' = return_value(step_after_emergency(r), r, dm_ret)
    /\ dm_tiers' = Append(dm_tiers, "emergency")
    /\ UNCHANGED <<dm_calls, drivers_installed, dm_flag_at_call, offline_drivers, dm_file,
                   hardware_info, dm_verdict, pkVars, hcVars, restVars>>

NextDrivers == Call \/ Detect \/ Online \/ Offline \/ Generic \/ Emergency

SpecDrivers == InitDrivers /\ [][NextDrivers]_vars

(***************************************************************************)
(* Specification SpecSysHealth: one call of comprehensive_health_check     *)
(* against every environment.                                              *)
(***************************************************************************)
InitSysHealth ==
    /\ sh_pc = "call"
    /\ health_report = <<>>
    /\ pkIdle /\ hcIdle /\ dmIdle
    /\ restIdle({"sh"})

ComprehensiveHealthCheck ==
    /\ sh_pc = "call"
    /\ \E env \in SysHealthEnv :
           health_report' = comprehensive_health_check(env)
    /\ sh_pc' = "returned"
    /\ UNCHANGED <<pkVars, hcVars, dmVars, rpVars, fpVars, heVars, runVars, moreVars>>

NextSysHealth == ComprehensiveHealthCheck

SpecSysHealth == InitSysHealth /\ [][NextSysHealth]_vars

(***************************************************************************)
(* Specification SpecRepair: one call of repair_system_health on every     *)
(* report check_system_health can build, against every environment.        *)
(***************************************************************************)
InitRepair ==
    /\ rp_pc = "call"
    /\ rp_report \in {[h EXCEPT !.overall_health = overall(h)] :
                         h \in [DOMAIN health_status_initial -> BOOLEAN]}
    /\ rp_actions = <<>>
    /\ rp_exc = "none"
    /\ pkIdle /\ hcIdle /\ dmIdle
    /\ restIdle({"rp"})

RepairSystemHealth ==
    /\ rp_pc = "call"
    /\ \E env \in RepairEnv :
           \E r \in {repair_system_health(rp_report, env)} :
               /\ rp_pc' = IF r.exc = "none" THEN "returned" ELSE "raised"
               /\ rp_actions' = r.actions
               /\ rp_exc' = r.exc
    /\ UNCHANGED <<rp_report, pkVars, hcVars, dmVars, shVars, fpVars, heVars, runVars, moreVars>>

NextRepair == RepairSystemHealth

SpecRepair == InitRepair /\ [][NextRepair]_vars

(***************************************************************************)
(* Specification SpecFix: one call of fix_package_management against       *)
(* every environment.                                                      *)
(***************************************************************************)
InitFix ==
    /\ fp_pc = "call"
    /\ fp_env \in FixEnv
    /\ fp_ran = <<>>
    /\ fp_failed = {}
    /\ pkIdle /\ hcIdle /\ dmIdle
    /\ restIdle({"fp"})

FixPackageManagement ==
    /\ fp_pc = "call"
    /\ LET r == fix_package_management(fp_env)
       IN  /\ fp_pc' = IF r.exc = "none" THEN "returned" ELSE "raised"
           /\ fp_ran' = r.ran
           /\ fp_failed' = r.failed
    /\ UNCHANGED <<fp_env, pkVars, hcVars, dmVars, shVars, rpVars, heVars, runVars, moreVars>>

NextFix == FixPackageManagement

SpecFix == InitFix /\ [][NextFix]_vars

(***************************************************************************)
(* Specification SpecTriage: one call of handle_error for every failure    *)
(* and every environment of the repair routines.                           *)
(***************************************************************************)
InitTriage ==
    /\ he_pc = "call"
    /\ he_error \in Errors
    /\ he_ran = <<>>
    /\ pkIdle /\ hcIdle /\ dmIdle
    /\ restIdle({"he"})

HandleError ==
    /\ he_pc = "call"
    /\ \E env \in TriageEnv :
          LET r == handle_error(he_error, env)
          IN  /\ he_pc' = IF r.exc = "none" THEN "returned" ELSE "raised"
              /\ he_ran' = r.ran
    /\ UNCHANGED <<he_error, pkVars, hcVars, dmVars, shVars, rpVars, fpVars, runVars, moreVars>>

NextTriage == HandleError

SpecTriage == InitTriage /\ [][NextTriage]_vars

(***************************************************************************)
(* Specification SpecRun: the orchestrator (src/main.py), as a full run    *)
(* (no flags) and in --system-repair mode.  run_trace lists the stages     *)
(* entered; the report, the remediations and the triage of a run are kept  *)
(* in health_report, rp_actions / rp_exc and he_error / he_ran.            *)
(***************************************************************************)
InitRun ==
    /\ run_pc = "main"
    /\ run_mode \in {"full", "system-repair"}
    /\ run_trace = <<>>
    /\ run_exc = "none"
    /\ pkIdle /\ hcIdle /\ dmIdle
    /\ restIdle({"run"})

\* main(): --system-repair goes straight to the health check; without
\* flags tool.run() first asks check_root() and leaves through
\* sys.exit(1), which `except Exception` does not catch, when not root.
Main ==
    /\ run_pc = "main"
    /\ \E is_root \in BOOLEAN :
           run_pc' = IF run_mode = "full" /\ ~is_root THEN "exit1" ELSE "health"
    /\ UNCHANGED <<run_mode, run_trace, run_exc>>
    /\ UNCHANGED <<pkVars, hcVars, dmVars, shVars, rpVars, fpVars, heVars, moreVars>>

\* health_status = comprehensive_health_check(); the full run repairs only
\* `if not health_status['overall_health']`, --system-repair always.  The
\* probes outside the repair's interest answer as on a sound machine.
RunHealth ==
    /\ run_pc = "health"
    /\ \E env \in {e \in SysHealthEnv :
                      /\ e.cpu = "ok" /\ e.dpkg = "ok_empty" /\ e.cache = "fresh"
                      /\ e.wifi_hw = "pci" /\ e.services = 1 /\ e.tools} :
           /\ health_report' = comprehensive_health_check(env)
           /\ run_pc' = IF run_mode = "full" /\ health_report'.overall_health
                        THEN "fix" ELSE "repair"
    /\ run_trace' = Append(run_trace, "comprehensive_health_check")
    /\ UNCHANGED <<run_mode, run_exc, sh_pc>>
    /\ UNCHANGED <<pkVars, hcVars, dmVars, rpVars, fpVars, heVars, moreVars>>

\* repair_system_health(health_status): an exception goes to the handler
\* of run() in a full run and ends the process in --system-repair mode,
\* where main() has no handler.
RunRepair ==
    /\ run_pc = "repair"
    /\ \E env \in RepairEnv :
           \E r \in {repair_system_health(health_report, env)} :
               /\ rp_actions' = r.actions
               /\ rp_exc' = r.exc
               /\ run_exc' = r.exc
               /\ run_pc' = IF r.exc = "none"
                            THEN IF run_mode = "full" THEN "fix" ELSE "done"
                            ELSE IF run_mode = "full" /\ except_Exception(r.exc)
                                 THEN "handle_error" ELSE "crashed"
    /\ run_trace' = Append(run_trace, "repair_system_health")
    /\ UNCHANGED <<run_mode, rp_pc, rp_report>>
    /\ UNCHANGED <<pkVars, hcVars, dmVars, shVars, fpVars, heVars, moreVars>>

\* self.package_manager.fix_package_management()
RunFix ==
    /\ run_pc = "fix"
    /\ \E env \in FixEnv :
           \E r \in {fix_package_management(env)} :
               /\ run_exc' = r.exc
               /\ run_pc' = IF r.exc = "none" THEN "scan" ELSE "handle_error"
    /\ run_trace' = Append(run_trace, "fix_package_management")
    /\ UNCHANGED run_mode
    /\ UNCHANGED <<pkVars, hcVars, dmVars, shVars, rpVars, fpVars, heVars, moreVars>>

\* networks = self.scanner.scan_networks(): every failure of the scan is
\* caught inside and gives []
RunScan ==
    /\ run_pc = "scan"
    /\ run_pc' = "drivers"
    /\ run_trace' = Append(run_trace, "scan_networks")
    /\ UNCHANGED <<run_mode, run_exc>>
    /\ UNCHANGED <<pkVars, hcVars, dmVars, shVars, rpVars, fpVars, heVars, moreVars>>

\* self.driver_manager.install_required_drivers(): returns, or lets the
\* FileNotFoundError of a command that cannot be started out (SpecDrivers
\* reaches both).
RunDrivers ==
    /\ run_pc = "drivers"
    /\ \E e \in {"none", "FileNotFoundError"} :
           /\ run_exc' = e
           /\ run_pc' = IF e = "none" THEN "test" ELSE "handle_error"
    /\ run_trace' = Append(run_trace, "install_required_drivers")
    /\ UNCHANGED run_mode
    /\ UNCHANGED <<pkVars, hcVars, dmVars, shVars, rpVars, fpVars, heVars, moreVars>>

\* self.test_wifi_functionality(): os.system, then a scan or
\* troubleshoot_wifi, both of which catch what their commands raise
RunTest ==
    /\ run_pc = "test"
    /\ run_pc' = "done"
    /\ run_trace' = Append(run_trace, "test_wifi_functionality")
    /\ UNCHANGED <<run_mode, run_exc>>
    /\ UNCHANGED <<pkVars, hcVars, dmVars, shVars, rpVars, fpVars, heVars, moreVars>>

\* except Exception as e: self.error_handler.handle_error(e)
RunHandleError ==
    /\ run_pc = "handle_error"
    /\ he_error' = [type |-> run_exc,
                    msg  |-> IF run_exc = "KeyError" THEN "msg_key"
                             ELSE "msg_no_file"]
    /\ \E env \in TriageEnv :
           \E r \in {handle_error(he_error', env)} :
               /\ he_ran' = r.ran
               /\ run_pc' = IF r.exc = "none" THEN "done" ELSE "crashed"
    /\ run_trace' = Append(run_trace, "handle_error")
    /\ UNCHANGED <<run_mode, run_exc, he_pc>>
    /\ UNCHANGED <<pkVars, hcVars, dmVars, shVars, rpVars, fpVars, moreVars>>

NextRun ==
    \/ Main
    \/ RunHealth
    \/ RunRepair
    \/ RunFix
    \/ RunScan
    \/ RunDrivers
    \/ RunTest
    \/ RunHandleError

SpecRun == InitRun /\ [][NextRun]_vars

(***************************************************************************)
(* Specification SpecTroubleshoot: troubleshoot_wifi invoked up to         *)
(* MaxCalls times in a row, the system answering each invocation on its    *)
(* own.                                                                    *)
(***************************************************************************)
InitTroubleshoot ==
    /\ tw_calls = <<>>
    /\ pkIdle /\ hcIdle /\ dmIdle
    /\ restIdle({"tw"})

TroubleshootWifi ==
    /\ Len(tw_calls) < MaxCalls
    /\ \A i \in 1..Len(tw_calls) : tw_calls[i].exc = "none"
    /\ \E env \in TroubleEnv :
           tw_calls' = Append(tw_calls, troubleshoot_wifi(env))
    /\ UNCHANGED <<rcVars, stVars, fsVars, bdVars>>
    /\ UNCHANGED <<pkVars, hcVars, dmVars, shVars, rpVars, fpVars, heVars, runVars>>

NextTroubleshoot == TroubleshootWifi

SpecTroubleshoot == InitTroubleshoot /\ [][NextTroubleshoot]_vars

(***************************************************************************)
(* Specification SpecCommand: one call of run_command for every behaviour  *)
(* of the command.                                                         *)
(***************************************************************************)
InitCommand ==
    /\ rc_pc = "call"
    /\ rc_in \in CommandEnv
    /\ rc_ret = <<>>
    /\ pkIdle /\ hcIdle /\ dmIdle
    /\ restIdle({"rc"})

RunCommand ==
    /\ rc_pc = "call"
    /\ LET r == run_command(rc_in)
       IN  /\ rc_pc' = IF r.exc = "none" THEN "returned" ELSE "raised"
           /\ rc_ret' = IF r.exc = "none" THEN r.val ELSE <<>>
    /\ UNCHANGED <<rc_in, tw_calls, stVars, fsVars, bdVars>>
    /\ UNCHANGED <<pkVars, hcVars, dmVars, shVars, rpVars, fpVars, heVars, runVars>>

NextCommand == RunCommand

SpecCommand == InitCommand /\ [][NextCommand]_vars

(***************************************************************************)
(* Specification SpecSteps: one call of a multi-command repair step for    *)
(* every way its commands can end.                                         *)
(***************************************************************************)
InitSteps ==
    /\ st_pc = "call"
    /\ st_in \in StepEnv
    /\ st_log = <<>>
    /\ st_exc = "none"
    /\ pkIdle /\ hcIdle /\ dmIdle
    /\ restIdle({"st"})

RunStep ==
    /\ st_pc = "call"
    /\ LET r == run_step(st_in.step, st_in.outs)
       IN  /\ st_pc' = IF r.exc = "none" THEN "returned" ELSE "raised"
           /\ st_log' = r.log
           /\ st_exc' = r.exc
    /\ UNCHANGED <<st_in, tw_calls, rcVars, fsVars, bdVars>>
    /\ UNCHANGED <<pkVars, hcVars, dmVars, shVars, rpVars, fpVars, heVars, runVars>>

NextSteps == RunStep

SpecSteps == InitSteps /\ [][NextSteps]_vars

(***************************************************************************)
(* Specification SpecBuild: one call of _compile_realtek_drivers from each *)
(* working directory, for every way its commands can end.                  *)
(***************************************************************************)
\* Where the tool may have been started.
StartDirs == {<<"opt", "wifi-automation-tool">>, <<"root">>}

InitBuild ==
    /\ bd_pc = "call"
    /\ bd_in \in [env : RealtekEnv, mp : ModprobeEnvCoarse]
    /\ bd_cwd0 \in StartDirs
    /\ bd_cwd = bd_cwd0
    /\ pkIdle /\ hcIdle /\ dmIdle
    /\ restIdle({"bd"})

CompileRealtek ==
    /\ bd_pc = "call"
    /\ LET r == _compile_realtek_drivers(bd_in.env, bd_in.mp, <<>>)
       IN  bd_cwd' = chdir_all(bd_cwd, r.chdirs)
    /\ bd_pc' = "returned"
    /\ UNCHANGED <<bd_in, bd_cwd0, tw_calls, rcVars, stVars, fsVars>>
    /\ UNCHANGED <<pkVars, hcVars, dmVars, shVars, rpVars, fpVars, heVars, runVars>>

NextBuild == CompileRealtek

SpecBuild == InitBuild /\ [][NextBuild]_vars

(***************************************************************************)
(* Specification SpecFiles: up to MaxCalls calls of _fix_sources_list and  *)
(* safe_file_write on the sources file, the clock advancing between them   *)
(* or not.                                                                 *)
(***************************************************************************)
MaxTime == 1

CallRecord(op, r, ok) ==
    [op     |-> op,
     before |-> FileState(fs_files, sources_path),
     at     |-> fs_clock,
     ops    |-> r.ops,
     ok     |-> ok]

InitFiles ==
    /\ fs_files \in {NoFiles} \cup
                    {[p \in {sources_path} |-> c] :
                        c \in {SourcesText.debian, SourcesText.kali_mirror}}
    /\ fs_clock = 0
    /\ fs_calls = <<>>
    /\ pkIdle /\ hcIdle /\ dmIdle
    /\ restIdle({"fs"})

FixSourcesList ==
    /\ Len(fs_calls) < MaxCalls
    /\ \E env \in RewriteEnv :
           \E r \in {rewrite_sources(fs_files, fs_clock, env)} :
               /\ fs_files' = r.files
               /\ fs_calls' = Append(fs_calls, CallRecord("_fix_sources_list", r, r.ok))
    /\ UNCHANGED <<fs_clock, tw_calls, rcVars, stVars, bdVars>>
    /\ UNCHANGED <<pkVars, hcVars, dmVars, shVars, rpVars, fpVars, heVars, runVars>>

SafeFileWrite ==
    /\ Len(fs_calls) < MaxCalls
    /\ \E content \in {SourcesText.debian, SourcesText.kali_mirror},
          env \in SafeWriteEnv :
           \E r \in {safe_file_write(fs_files, fs_clock, sources_path, content, env)} :
               /\ fs_files' = r.files
               /\ fs_calls' = Append(fs_calls, CallRecord("safe_file_write", r, r.val))
    /\ UNCHANGED <<fs_clock, tw_calls, rcVars, stVars, bdVars>>
    /\ UNCHANGED <<pkVars, hcVars, dmVars, shVars, rpVars, fpVars, heVars, runVars>>

\* a second passes
Tick ==
    /\ fs_clock < MaxTime
    /\ fs_clock' = fs_clock + 1
    /\ UNCHANGED <<fs_files, fs_calls, tw_calls, rcVars, stVars, bdVars>>
    /\ UNCHANGED <<pkVars, hcVars, dmVars, shVars, rpVars, fpVars, heVars, runVars>>

NextFiles == FixSourcesList \/ SafeFileWrite \/ Tick

SpecFiles == InitFiles /\ [][NextFiles]_vars

(***************************************************************************)
(* Properties.                                                             *)
(***************************************************************************)
\* The order in which the chain is documented to try its strategies.
DeclaredOrder ==
    <<"_install_normal", "_install_fix_broken",
      "_install_allow_downgrades", "_install_force_yes">>

CmdFailed(o) == o \in {"nonzero", "timeout", "nostart"}

\* C1: the strategies invoked are a prefix of plain, fix-broken,
\* allow-downgrades, force, in that order; if strategy i is the first whose
\* command succeeds, the call returns true having invoked exactly the first
\* i strategies (none after the successful one).
C1_ChainOrderStopsAtFirstSuccess ==
    pk_pc \in {"returned", "raised"} =>
        /\ Len(pk_invoked) <= Len(DeclaredOrder)
        /\ \A i \in 1..Len(pk_invoked) : pk_invoked[i] = DeclaredOrder[i]
        /\ \A i \in 1..4 :
               (pk_outs[i] = "ok" /\ \A j \in 1..(i - 1) : pk_outs[j] # "ok")
                   => /\ pk_pc = "returned"
                      /\ pk_ret = TRUE
                      /\ Len(pk_invoked) = i

C1_Witness ==
    /\ pk_pc = "returned"
    /\ pk_outs = <<"nonzero", "nonzero", "ok", "nonzero">>
    /\ pk_ret = TRUE
    /\ Len(pk_invoked) = 3

\* C2: when every strategy fails the call returns false having invoked
\* each of the four strategies exactly once; the call returns true if and
\* only if some strategy's command succeeded.
C2_AllFailInvokesEachOnce ==
    pk_pc \in {"returned", "raised"} =>
        /\ (\A i \in 1..4 : CmdFailed(pk_outs[i]))
               => /\ pk_pc = "returned"
                  /\ pk_ret = FALSE
                  /\ Len(pk_invoked) = 4
                  /\ \A i \in 1..4 :
                         Cardinality({j \in 1..Len(pk_invoked) :
                                          pk_invoked[j] = DeclaredOrder[i]}) = 1
        /\ (pk_ret = TRUE) <=> (\E i \in 1..4 : pk_outs[i] = "ok")

C2_Witness ==
    /\ pk_pc = "returned"
    /\ \A i \in 1..4 : CmdFailed(pk_outs[i])
    /\ pk_outs[1] # pk_outs[2]
    /\ pk_ret = FALSE
    /\ Len(pk_invoked) = 4

\* C3: the call never raises; a strategy whose command cannot be started,
\* times out or exits nonzero counts as failed and the next strategy in
\* order is still tried.
C3_StrategyFailureIsNotChainAbort ==
    /\ pk_pc # "raised"
    /\ pk_pc = "returned" =>
           \A i \in 1..3 :
               (i <= Len(pk_invoked) /\ CmdFailed(pk_outs[i]))
                   => /\ Len(pk_invoked) >= i + 1
                      /\ pk_invoked[i + 1] = DeclaredOrder[i + 1]

C3_Witness ==
    /\ pk_pc = "returned"
    /\ pk_outs[1] = "nostart"
    /\ pk_outs[2] = "timeout"
    /\ pk_outs[3] = "nonzero"
    /\ Len(pk_invoked) = 4

\* C4: the tiers run in the order detection, online, offline, generic; the
\* offline attempt runs only after an online attempt judged failed, generic
\* install only after both were judged failed (or directly after a
\* detection that found no hardware), and an attempt judged successful is
\* the last tier of its invocation.
C4_TiersEscalateInOrder ==
    /\ \A i \in 1..Len(dm_tiers) :
           /\ dm_tiers[i] = "detect" <=> i = 1
           /\ dm_tiers[i] = "online" => i = 2
           /\ dm_tiers[i] = "offline" =>
                  /\ i = 3
                  /\ dm_tiers[2] = "online"
                  /\ dm_verdict.online = "failed"
           /\ dm_tiers[i] = "generic" =>
                  \/ /\ i = 4
                     /\ dm_tiers[3] = "offline"
                     /\ dm_verdict.online = "failed"
                     /\ dm_verdict.offline = "failed"
                  \/ /\ i = 2
                     /\ hardware_info \in {<<>>, Literals.Unknown}
    /\ dm_verdict.online = "success" =>
           dm_tiers = <<"detect", "online">> /\ dm_pc = "returned"
    /\ dm_verdict.offline = "success" =>
           dm_tiers = <<"detect", "online", "offline">> /\ dm_pc = "returned"

C4_Witness ==
    /\ dm_pc = "returned"
    /\ dm_tiers = <<"detect", "online", "offline", "generic">>
    /\ dm_verdict.online = "failed"
    /\ dm_verdict.offline = "failed"

\* C5: an online attempt that returns a verdict over n candidate packages,
\* k of which installed, is judged successful exactly when 2k >= n.
C5_OnlineThresholdIsHalfInclusive ==
    (dm_frame.tier = "online" /\ dm_verdict.online \in {"success", "failed"}) =>
        ((dm_verdict.online = "success") <=>
            (2 * dm_frame.success_count >= Cardinality(dm_frame.driver_packages)))

\* 2 of 4 candidates installed: judged successful
C5_Witness ==
    /\ dm_frame.tier = "online"
    /\ Cardinality(dm_frame.driver_packages) = 4
    /\ dm_frame.success_count = 2
    /\ dm_verdict.online = "success"

\* C6: when detection finds no wireless device, generic install follows
\* detection directly: neither the online nor the offline attempt runs.
C6_NoHardwareGoesToGeneric ==
    (hardware_info = Literals.Unknown /\ Len(dm_tiers) >= 2) =>
        /\ dm_tiers[2] = "generic"
        /\ \A i \in 1..Len(dm_tiers) : dm_tiers[i] \notin {"online", "offline"}

\* The family the driver table assigns to a descriptor when markers are
\* matched without regard to case: the first entry, in table order, one of
\* whose markers occurs in the descriptor; generic when none does.
RECURSIVE family_loop(_, _, _)
family_loop(db, i, hw) ==
    IF i > Len(db) THEN "generic"
    ELSE IF \E j \in 1..Len(db[i].devices) :
                Contains(Lower(hw), Lower(db[i].devices[j]))
         THEN db[i].key
         ELSE family_loop(db, i + 1, hw)

MarkerFamily(hw, db) == family_loop(db, 1, hw)

\* C7: the driver type identified for a descriptor is the first family of
\* the driver table one of whose markers the descriptor contains, matched
\* case-insensitively; generic when it contains none.
C7_MarkerIdentifiesFamily ==
    dm_frame.tier = "offline" =>
        dm_frame.driver_type = MarkerFamily(hardware_info, offline_drivers)

LogHas(cmd, arg) == \E i \in 1..Len(dm_log) : dm_log[i] = LogEntry(cmd, arg)

\* C8: no failure leaves install_required_drivers, and an invocation that
\* ended in emergency recovery attempted every known module, the RF-kill
\* unblock and the network service restart.
C8_NoFailureReachesCaller ==
    /\ dm_pc # "raised"
    /\ (dm_pc = "returned" /\ dm_frame.tier = "emergency") =>
           /\ \A i \in 1..Len(all_modules) : LogHas("modprobe", all_modules[i])
           /\ LogHas("rfkill", "unblock")
           /\ LogHas("systemctl", "restart")

LastTier == dm_tiers[Len(dm_tiers)]

C10_OverallIsAndOfFour ==
    hc_pc = "returned" =>
        health_status.overall_health =
            (/\ health_status.apt_working
             /\ health_status.sources_valid
             /\ health_status.network_connected
             /\ health_status.disk_space_adequate)

\* all four gating probes pass, both informational probes fail
C10_Witness ==
    /\ hc_pc = "returned"
    /\ health_status.overall_health
    /\ ~health_status.gpg_keys_valid
    /\ ~health_status.dependencies_ok

\* C11: in the report comprehensive_health_check returns, overall_health is
\* the AND of apt_working, disk_space_adequate and internet_connectivity,
\* whatever every other probe answered.
C11_OverallIsAndOfThreeCritical ==
    sh_pc = "returned" =>
        health_report.overall_health =
            (/\ health_report.package_manager.apt_working
             /\ health_report.system.disk_space_adequate
             /\ health_report.network.internet_connectivity)

\* the three critical probes pass while sources, keys, DNS and memory fail
C11_Witness ==
    /\ sh_pc = "returned"
    /\ health_report.overall_health
    /\ ~health_report.package_manager.sources_valid
    /\ ~health_report.package_manager.gpg_keys_valid
    /\ ~health_report.network.dns_working
    /\ ~health_report.system.memory_adequate

\* What C12 asks of every report: no error leaves check_system_health, the
\* six probes all ran in order, and every field is a boolean.
ReportIsComplete ==
    /\ hc_pc # "raised"
    /\ hc_pc = "returned" =>
           /\ hc_ran = probe_order
           /\ \A i \in 1..Len(probe_order) : health_status[probe_order[i]] \in BOOLEAN

\* The probes other than the package-manager probe: a command that cannot
\* be started or exits nonzero, a file that is missing or unreadable, or
\* output that cannot be parsed, makes the probe false.
OtherProbesFalseOnFailure ==
    hc_pc = "returned" =>
        /\ hc_env.sources \in {"missing", "unreadable"} => ~health_status.sources_valid
        /\ hc_env.gpg.outcome # "ok" => ~health_status.gpg_keys_valid
        /\ (\A i \in 1..Len(repositories) : hc_env.ping[i] # "ok")
               => ~health_status.network_connected
        /\ hc_env.df.kind # "parsed" => ~health_status.disk_space_adequate
        /\ hc_env.dpkg.outcome # "ok" => ~health_status.dependencies_ok

\* C12 as claimed: each probe returns a boolean and never propagates an
\* error; a probe whose command cannot be run, fails or yields unparseable
\* output is false, the remaining probes still run in order and the report
\* is complete.
C12_FailedProbeIsFalse ==
    /\ ReportIsComplete
    /\ OtherProbesFalseOnFailure
    /\ hc_pc = "returned" =>
           (hc_env.apt.outcome # "ok" => ~health_status.apt_working)

\* C12 (amended): as claimed, except that the package-manager probe whose
\* command exits nonzero is true exactly when its output contains "Reading
\* package lists"; it is false when the command cannot be started or times
\* out.
C12_FailedProbeIsFalseExceptReadingLists ==
    /\ ReportIsComplete
    /\ OtherProbesFalseOnFailure
    /\ hc_pc = "returned" =>
           /\ hc_env.apt.outcome \in {"timeout", "nostart"} => ~health_status.apt_working
           /\ hc_env.apt.outcome = "nonzero" =>
                  (health_status.apt_working <=> hc_env.apt.reading_lists)

\* apt-key cannot be started, df prints garbage, dpkg exits nonzero: the
\* three probes are false and the probes after them ran all the same
C12_Witness ==
    /\ hc_pc = "returned"
    /\ hc_env.apt.outcome = "nonzero" /\ hc_env.apt.reading_lists
    /\ hc_env.gpg.outcome = "nostart"
    /\ hc_env.df.kind = "unparseable"
    /\ hc_env.dpkg.outcome = "nonzero"
    /\ hc_ran = probe_order
    /\ health_status.apt_working
    /\ ~health_status.gpg_keys_valid
    /\ ~health_status.disk_space_adequate
    /\ ~health_status.dependencies_ok
    /\ health_status.network_connected

Ran(routine) == \E i \in 1..Len(rp_actions) : rp_actions[i] = routine

\* C13: after repair_system_health(report), each remediation has run
\* exactly when its probe is false in the report (emergency repair for
\* apt_working, sources rewrite for sources_valid, key repair for
\* gpg_keys_valid, disk cleanup for disk_space_adequate), each at most once;
\* a report whose only false probe is sources_valid gets the sources
\* rewrite alone.
C13_RepairsMatchFailedProbes ==
    rp_pc \in {"returned", "raised"} =>
        /\ Ran("_emergency_apt_repair") <=> ~rp_report.apt_working
        /\ Ran("_fix_sources_list") <=> ~rp_report.sources_valid
        /\ Ran("_fix_gpg_keys") <=> ~rp_report.gpg_keys_valid
        /\ Ran("_free_up_disk_space") <=> ~rp_report.disk_space_adequate
        /\ \A i, j \in 1..Len(rp_actions) : rp_actions[i] = rp_actions[j] => i = j
        /\ (/\ ~rp_report.sources_valid
            /\ rp_report.apt_working /\ rp_report.gpg_keys_valid
            /\ rp_report.disk_space_adequate)
               => rp_actions = <<"_fix_sources_list">>

\* C16: fix_package_management attempts remove lock files, fix broken
\* packages, clean cache, refresh package metadata, force-install missing
\* dependencies, in that order and each exactly once, whatever any of them
\* raised, and nothing propagates to the caller.
C16_FiveFixesInOrderNoneAborts ==
    /\ fp_pc # "raised"
    /\ fp_pc = "returned" =>
           fp_ran = <<"_remove_lock_files", "_fix_broken_packages",
                      "_clean_apt_cache", "_update_package_lists",
                      "_fix_missing_dependencies">>

\* the first, second and third action raise; the fourth and fifth still ran
C16_Witness ==
    /\ fp_pc = "returned"
    /\ {"_remove_lock_files", "_fix_broken_packages", "_clean_apt_cache"}
           \subseteq fp_failed
    /\ Len(fp_ran) = 5
    /\ fp_ran[5] = "_fix_missing_dependencies"

InTrace(stage) == \E i \in 1..Len(run_trace) : run_trace[i] = stage

\* C14: when the orchestrator hands the report of comprehensive_health_check
\* to repair_system_health (full run or --system-repair), the repair
\* completes without raising and has run the remediation of every probe the
\* report marks failed.
C14_RepairConsumesHealthReport ==
    InTrace("repair_system_health") =>
        /\ rp_exc = "none"
        /\ ~health_report.package_manager.apt_working
               => Ran("_emergency_apt_repair")
        /\ ~health_report.package_manager.sources_valid
               => Ran("_fix_sources_list")
        /\ ~health_report.package_manager.gpg_keys_valid
               => Ran("_fix_gpg_keys")
        /\ ~health_report.system.disk_space_adequate
               => Ran("_free_up_disk_space")

\* the stages of a full run in their documented order
FullRunOrder ==
    <<"comprehensive_health_check", "repair_system_health",
      "fix_package_management", "scan_networks", "install_required_drivers",
      "test_wifi_functionality", "handle_error">>

StageIndex(stage) == CHOOSE k \in 1..Len(FullRunOrder) : FullRunOrder[k] = stage

\* C15: a full run as root enters its stages in the order health check,
\* package repair, driver recovery, smoke test; a run that ends after a
\* failure has handed it to handle_error; and a finished run whose health
\* check reported overall_health false has reached the package-management
\* repair and the driver recovery.
C15_FullRunReachesEveryStage ==
    run_mode = "full" =>
        /\ \A i, j \in 1..Len(run_trace) :
               i < j => StageIndex(run_trace[i]) < StageIndex(run_trace[j])
        /\ (run_pc \in {"done", "crashed"} /\ run_exc # "none")
               => InTrace("handle_error")
        /\ (run_pc \in {"done", "crashed"} /\ ~health_report.overall_health)
               => /\ InTrace("fix_package_management")
                  /\ InTrace("install_required_drivers")

\* The routines of the table in the order the table is documented to be
\* consulted, and the pattern of each.
TableRoutines ==
    <<"_fix_permission_issues", "_fix_missing_files", "_fix_subprocess_errors",
      "_fix_os_errors", "_fix_connection_issues">>

TablePatterns ==
    <<"pat_PermissionError", "pat_FileNotFoundError", "pat_CalledProcessError",
      "pat_OSError", "pat_ConnectionError">>

TableIndex(routine) == CHOOSE k \in 1..Len(TableRoutines) : TableRoutines[k] = routine

IsTableRoutine(routine) == \E k \in 1..Len(TableRoutines) : TableRoutines[k] = routine

\* the positions of he_ran at which a routine of the table ran
TableRuns == {i \in 1..Len(he_ran) : IsTableRoutine(he_ran[i].routine)}

Matching == {k \in 1..Len(TablePatterns) : pattern_matches(TablePatterns[k], he_error)}

\* C17: handle_error consults the table in the order permission,
\* missing-file, subprocess-failure, os-error, connection-error: when an
\* entry matches the failure, the routine that runs first is the one of the
\* first matching entry, the table routines that run run in table order, and
\* a routine that reports success is the last thing the call does.
C17_FirstMatchRunsAndSuccessStops ==
    he_pc \in {"returned", "raised"} =>
        /\ Matching # {} =>
               /\ he_ran # <<>>
               /\ he_ran[1].routine = TableRoutines[CHOOSE k \in Matching :
                                                    \A m \in Matching : k <= m]
        /\ \A i, j \in TableRuns :
               i < j => TableIndex(he_ran[i].routine) < TableIndex(he_ran[j].routine)
        /\ \A i \in TableRuns :
               he_ran[i].ret = "True" => (i = Len(he_ran) /\ he_pc = "returned")

\* a failure that matches the permission entry and the os-error entry: the
\* permission repair ran, reported success, and nothing ran after it
C17_Witness ==
    /\ he_pc = "returned"
    /\ he_error = [type |-> "PermissionError", msg |-> "msg_names_two"]
    /\ he_ran = <<[routine |-> "_fix_permission_issues", ret |-> "True"]>>

AnalysisRuns == {i \in 1..Len(he_ran) : he_ran[i].routine = "_analyze_and_fix_general"}

\* C18: after handle_error, the message analysis has run exactly once when
\* no table entry matched or the matched routine reported failure, and at
\* most one routine of the table has run, even when several entries match.
C18_OneTableRoutineThenAnalysis ==
    he_pc \in {"returned", "raised"} =>
        /\ (\/ Matching = {}
            \/ \E i \in TableRuns : he_ran[i].ret = "False")
               => Cardinality(AnalysisRuns) = 1
        /\ Cardinality(TableRuns) <= 1

\* C19: a failure whose message contains "Permission denied", whatever its
\* kind, gets the permission repair exactly once.
C19_PermissionDeniedGetsPermissionRepair ==
    (/\ he_pc \in {"returned", "raised"}
     /\ Contains(ErrorText[he_error.msg], ErrorText.Permission_denied))
        => Cardinality({i \in 1..Len(he_ran) :
                           he_ran[i].routine = "_fix_permission_issues"}) = 1

\* the kinds of failure the table names, in table order
TableKinds ==
    <<"PermissionError", "FileNotFoundError", "CalledProcessError", "OSError",
      "ConnectionError">>

\* C20: a failure of each kind the table names reaches the routine of its
\* own entry (a subprocess.CalledProcessError the subprocess repair, and so
\* on), for failures whose message names no pattern of the table.
C20_EachKindReachesItsRoutine ==
    (/\ he_pc \in {"returned", "raised"}
     /\ \A k \in 1..Len(TablePatterns) :
            ~Contains(ErrorText[he_error.msg], ErrorText[TablePatterns[k]]))
        => \A k \in 1..Len(TableKinds) :
               he_error.type = TableKinds[k]
                   => \E i \in 1..Len(he_ran) : he_ran[i].routine = TableRoutines[k]

\* the lower-cased text of the failure contains one of the words
TextHas(words) ==
    \E w \in words : Contains(Lower(ErrorText[he_error.msg]), ErrorText[w])

\* C21: when the message analysis runs, it calls exactly one routine, chosen
\* from the lower-cased failure text in the priority {broken, dependency,
\* dpkg} -> package-system repair, {network, connection, unreachable} ->
\* network repair, {driver, firmware, module} -> driver-system repair,
\* {memory, space, disk} -> resource cleanup, otherwise general system
\* repair; a failure that matches no table entry and carries no keyword
\* ends in general system repair.
C21_AnalysisPicksByKeywordPriority ==
    he_pc \in {"returned", "raised"} =>
        /\ \A i \in AnalysisRuns :
               he_ran[i].ret =
                   IF TextHas({"broken", "dependency", "dpkg"})
                   THEN "_fix_package_system"
                   ELSE IF TextHas({"network", "connection", "unreachable"})
                   THEN "_fix_network_system"
                   ELSE IF TextHas({"driver", "firmware", "module"})
                   THEN "_fix_driver_system"
                   ELSE IF TextHas({"memory", "space", "disk"})
                   THEN "_fix_resource_issues"
                   ELSE "_general_system_repair"
        /\ Cardinality(AnalysisRuns) <= 1
        /\ (/\ Matching = {}
            /\ ~TextHas({"broken", "dependency", "dpkg", "network", "connection",
                         "unreachable", "driver", "firmware", "module", "memory",
                         "space", "disk"}))
               => he_ran = <<[routine |-> "_analyze_and_fix_general",
                              ret |-> "_general_system_repair"]>>

\* a message that carries a driver keyword and a resource keyword went to
\* the driver-system repair
C21_Witness ==
    /\ he_pc = "returned"
    /\ he_error = [type |-> "RuntimeError", msg |-> "msg_driver_space"]
    /\ he_ran = <<[routine |-> "_analyze_and_fix_general",
                   ret |-> "_fix_driver_system"]>>

\* C22: handle_error always completes: whatever the failure and whatever
\* the commands of the repair routines do, no exception of a table routine
\* or of a message-analysis routine leaves handle_error.
C22_HandleErrorAlwaysCompletes == he_pc # "raised"

C24_TwoCallsSameCommands ==
    Len(tw_calls) >= 2 =>
        /\ tw_calls[1].log = tw_calls[2].log
        /\ tw_calls[2].exc = "none"

Keys(db) == {db[i].key : i \in 1..Len(db)}

\* C25: the driver table of a DriverManager is the built-in table overlaid
\* by the definitions file: an entry of the file replaces the built-in
\* entry of the same key, keys only in the file are added, keys only in the
\* built-in table keep their entry; when the file is absent or cannot be
\* parsed the table is the built-in table exactly.
C25_TableIsDefaultsOverlaidByFile ==
    IF dm_file.present /\ dm_file.parses
    THEN /\ Keys(offline_drivers) = Keys(offline_db) \cup Keys(dm_file.db)
         /\ Len(offline_drivers) = Cardinality(Keys(offline_drivers))
         /\ \A k \in Keys(dm_file.db) :
                Entry(offline_drivers, k) = Entry(dm_file.db, k)
         /\ \A k \in Keys(offline_db) \ Keys(dm_file.db) :
                Entry(offline_drivers, k) = Entry(offline_db, k)
    ELSE offline_drivers = offline_db

\* a DriverManager built beside a file that restates realtek, adds mediatek
\* and says nothing of intel
C25_Witness ==
    /\ dm_file.present /\ dm_file.parses
    /\ Entry(offline_drivers, "realtek").modules = <<"rtl8xxxu">>
    /\ HasKey(offline_drivers, "mediatek")
    /\ Entry(offline_drivers, "intel") = Entry(offline_db, "intel")

\* C26: run_command never raises; a command that exits is returned as
\* (exit code, stdout, stderr) whatever the code; a timeout and a failure
\* to start are returned as (-1, "", message), so that a timeout reaches the
\* caller as a nonzero code like any other failed command.
C26_RunCommandEncodesFailures ==
    /\ rc_pc # "raised"
    /\ rc_pc = "returned" =>
           IF rc_in.kind = "exit"
           THEN rc_ret = <<rc_in.code, rc_in.stdout, rc_in.stderr>>
           ELSE /\ rc_ret[1] = -1
                /\ rc_ret[2] = ""
                /\ rc_ret[3] # ""

\* a command that ran past the timeout
C26_Witness ==
    /\ rc_pc = "returned"
    /\ rc_in.kind = "timeout"
    /\ rc_ret = <<-1, "", "Command timed out">>

\* C27: repair_system_health isolates its remediations: a failure inside
\* one of them (the process-kill command cannot be started, a lock file
\* cannot be removed, ...) is not raised to the caller, and the remediation
\* of every other failed probe still runs.
C27_RemediationsAreIsolated ==
    rp_pc \in {"returned", "raised"} =>
        /\ rp_exc = "none"
        /\ \A i \in 1..Len(repairs) :
               ~rp_report[repairs[i].key] => Ran(repairs[i].routine)

\* C28: when the online attempt is judged successful for hardware of family
\* F (F read from the descriptor by the markers of the driver table), a
\* load of every kernel module the table lists for F has been attempted
\* by the time install_required_drivers returns.
C28_OnlineSuccessLoadsFamilyModules ==
    (dm_pc = "returned" /\ dm_verdict.online = "success") =>
        LET F == MarkerFamily(hardware_info, offline_drivers)
        IN  F # "generic" =>
                \A j \in 1..Len(Entry(offline_drivers, F).modules) :
                    LogHas("modprobe", Entry(offline_drivers, F).modules[j])

\* The candidate list as documented: the baseline, united with the extras of
\* the first family, in the priority atheros, realtek, intel, broadcom, one
\* of whose names (keys of Literals) occurs in the lower-cased descriptor.
FamilyPriority == <<"atheros", "realtek", "intel", "broadcom">>

FamilyExtras ==
    [atheros  |-> {"firmware-atheros"},
     realtek  |-> {"firmware-realtek"},
     intel    |-> {"firmware-iwlwifi"},
     broadcom |-> {"firmware-brcm80211", "b43-fwcutter"}]

DocumentedPackages(hw, names) ==
    LET occurs(k) == \E n \in names[FamilyPriority[k]] :
                         Contains(Lower(hw), Literals[n])
        found == {k \in 1..Len(FamilyPriority) : occurs(k)}
    IN  {"firmware-linux", "firmware-linux-nonfree", "wireless-tools", "wpasupplicant"}
        \cup (IF found = {} THEN {}
              ELSE FamilyExtras[FamilyPriority[CHOOSE k \in found :
                                                   \A m \in found : k <= m]])

\* C29 as claimed: the candidates of the online attempt are the baseline
\* united with the extras of the first family whose name occurs in the
\* descriptor, the baseline alone when no family name occurs, and no more
\* installs succeed than there are candidates.
C29_CandidatesByFamilyName ==
    dm_frame.tier = "online" =>
        /\ dm_frame.driver_packages =
               DocumentedPackages(hardware_info,
                                  [atheros |-> {"atheros"}, realtek |-> {"realtek"},
                                   intel |-> {"intel"}, broadcom |-> {"broadcom"}])
        /\ dm_frame.success_count <= Cardinality(dm_frame.driver_packages)

\* C29 as the code has it: the same, with the intel family recognised by
\* the name intel or by the driver name iwlwifi.
C29_CandidatesByFamilyNameOrIwlwifi ==
    dm_frame.tier = "online" =>
        /\ dm_frame.driver_packages =
               DocumentedPackages(hardware_info,
                                  [atheros |-> {"atheros"}, realtek |-> {"realtek"},
                                   intel |-> {"intel", "iwlwifi"},
                                   broadcom |-> {"broadcom"}])
        /\ dm_frame.success_count <= Cardinality(dm_frame.driver_packages)

\* a descriptor that names iwlwifi and no family: the candidates are the
\* baseline and firmware-iwlwifi
C29_Witness ==
    /\ dm_frame.tier = "online"
    /\ hardware_info = Lines.pci_iwlwifi
    /\ dm_frame.driver_packages =
           {"firmware-linux", "firmware-linux-nonfree", "wireless-tools",
            "wpasupplicant", "firmware-iwlwifi"}


\* The modules the driver table lists for a family.
FamilyModules(db, family) ==
    IF HasKey(db, family) THEN Range(Entry(db, family).modules) ELSE {}

\* C30: in the offline attempt the family's modules already present are
\* tried first and one load is success without a source build, a source
\* build is tried only when none loaded; and when the online attempt has
\* failed on hardware whose descriptor carries a marker of family F, then
\* wherever at least one module of F loads the offline attempt succeeds
\* and generic install does not run.
C30_OfflineSucceedsWhenFamilyModuleLoads ==
    /\ (dm_frame.tier = "offline" /\ dm_verdict.offline # "raised") =>
           /\ dm_frame.modules_loaded > 0 =>
                  dm_verdict.offline = "success" /\ ~dm_frame.source_build
           /\ dm_frame.modules_loaded = 0 => dm_frame.source_build
    /\ (dm_pc = "offline" /\ dm_verdict.online = "failed") =>
           LET F           == MarkerFamily(hardware_info, offline_drivers)
               driver_type == identify_driver_type(hardware_info, offline_drivers)
           IN  \A env \in OfflineEnv(driver_type), mp \in ModprobeEnv :
                   (/\ F # "generic"
                    /\ mp.startable
                    /\ FamilyModules(offline_drivers, F) \cap mp.loadable # {})
                   => LET r == _try_offline_installation(driver_type, offline_drivers,
                                                         env, mp, dm_log)
                      IN  /\ verdict_of(r) = "success"
                          /\ step_after_offline(r) # "generic"

\* C31: a failure raised during the offline attempt counts as "offline
\* attempt failed": no exception leaves the offline attempt, and the tier
\* that follows an offline attempt is generic install.
C31_OfflineFailureFallsThroughToGeneric ==
    /\ dm_verdict.offline # "raised"
    /\ \A i \in 1..(Len(dm_tiers) - 1) :
           dm_tiers[i] = "offline" => dm_tiers[i + 1] = "generic"

StepCommands(step) == [i \in 1..Len(repair_steps[step]) |-> repair_steps[step][i].cmd]

\* C32: the broken-packages step runs reconfigure, fix-broken install and
\* install with fix-missing as three invocations in that order, and a
\* command runs whenever every command before it ended by exiting (zero or
\* nonzero) or by timing out.
C32_BrokenPackagesRunsAllThree ==
    (st_pc # "call" /\ st_in.step = "_fix_broken_packages") =>
        /\ StepCommands(st_in.step) =
               <<"dpkg --configure -a", "apt --fix-broken install -y",
                 "apt install --fix-missing -y">>
        /\ \A k \in 1..Len(st_in.outs) :
               (\A j \in 1..(k - 1) : st_in.outs[j] \in {"ok", "nonzero", "timeout"})
               => /\ Len(st_log) >= k
                  /\ st_log[k] = StepCommands(st_in.step)[k]

C32_Witness ==
    /\ st_pc = "returned"
    /\ st_in.step = "_fix_broken_packages"
    /\ st_in.outs = <<"nonzero", "timeout", "ok">>
    /\ Len(st_log) = Len(st_in.outs)

\* C33: in every multi-command repair step the commands run are the same
\* whether a given command timed out or exited nonzero.
C33_TimeoutHandledAsNonzero ==
    st_pc # "call" =>
        \A k \in 1..Len(st_in.outs) :
            st_in.outs[k] = "timeout" =>
                st_log = run_step(st_in.step, [st_in.outs EXCEPT ![k] = "nonzero"]).log

\* C34: every invocation of troubleshoot_wifi attempts the restart of the
\* network services, the reload of the standard modules, the RF-kill
\* unblock and the bring-up of wlan0, in that order, whatever an earlier
\* step did.
C34_EveryTroubleshootStepAttempted ==
    \A n \in 1..Len(tw_calls) :
        LET log == tw_calls[n].log
        IN  \E a, b, c, d \in 1..Len(log) :
                /\ a < b /\ b < c /\ c < d
                /\ log[a] = LogEntry("systemctl", "NetworkManager")
                /\ log[b] = LogEntry("modprobe", wifi_modules[1])
                /\ log[c] = LogEntry("rfkill", "unblock")
                /\ log[d] = LogEntry("ip", "wlan0")

\* C37: drivers_installed is false after construction; it becomes true only
\* in the step that ends an online or an offline attempt which returned
\* true, never in generic install or emergency recovery; and once true it
\* stays true through every later step of every later invocation.
C37_FlagSetOnlyBySuccessNeverReset ==
    /\ [](dm_calls = 0 => ~drivers_installed)
    /\ [][/\ drivers_installed => drivers_installed'
          /\ (~drivers_installed /\ drivers_installed') =>
                 \/ dm_pc = "online" /\ dm_verdict'.online = "success"
                 \/ dm_pc = "offline" /\ dm_verdict'.offline = "success"]_vars

\* a second invocation that ended in generic install or emergency recovery
\* after the first one had set the flag
C37_Witness ==
    /\ dm_calls = MaxCalls
    /\ dm_flag_at_call
    /\ dm_pc \in {"returned", "raised"}
    /\ LastTier \in {"generic", "emergency"}
    /\ drivers_installed

\* C38: the realtek source build leaves the working directory of the
\* process as it found it, on every exit path.
C38_BuildKeepsWorkingDirectory ==
    bd_pc = "returned" => bd_cwd = bd_cwd0

LastCall == fs_calls[Len(fs_calls)]

\* The content of some backup file: one made beside the sources file by the
\* rewrite, or one made under backups/ by create_backup.
InBackup(content, dir) ==
    \E p \in DOMAIN fs_files :
        p.dir = dir /\ p.stamp # <<>> /\ fs_files[p] = content

\* C35: the sources rewrite backs an existing file up before it writes:
\* the write is never the first of the two operations, and after the
\* rewrite, whether its write succeeded or failed, a sources file exists
\* at the configured path and the previous content is in a backup (or,
\* when the backup itself could not be made, still in the sources file).
C35_RewriteBacksUpThenWrites ==
    (/\ fs_calls # <<>>
     /\ LastCall.op = "_fix_sources_list"
     /\ LastCall.before.exists)
    => /\ LastCall.ops[1] = "rename"
       /\ \/ InBackup(LastCall.before.content, sources_path.dir)
          \/ (/\ LastCall.ops = <<"rename">>
              /\ FileState(fs_files, sources_path) = LastCall.before)
       /\ os_path_exists(fs_files, sources_path)

\* C36: a safe_file_write that returned true over an existing file has left
\* a timestamped backup holding the content the file had before the call.
C36_SafeWriteKeepsPriorContent ==
    (/\ fs_calls # <<>>
     /\ LastCall.op = "safe_file_write"
     /\ LastCall.ok
     /\ LastCall.before.exists)
    => InBackup(LastCall.before.content, "backups")

\* A targeted repair does not run the sources rewrite on any report whose
\* sources probe passed, whatever the other probes said and whatever the
\* other remediations meet.
PassedProbeSkipsRewrite ==
    \A h \in [DOMAIN health_status_initial -> BOOLEAN], env \in RepairEnv :
        h.sources_valid =>
            LET r == repair_system_health(h, env)
            IN  \A i \in 1..Len(r.actions) : r.actions[i] # "_fix_sources_list"

\* C39: right after a sources rewrite whose write succeeded both sources
\* probes return true, so that a targeted repair on a fresh report does not
\* run the sources rewrite again.
C39_RewriteThenProbePasses ==
    (fs_calls # <<>> /\ LastCall.op = "_fix_sources_list" /\ LastCall.ok) =>
        LET probe == _check_sources_list(SourcesFacts(fs_files))
        IN  /\ probe.exc = "none" /\ probe.val
            /\ _check_sources_valid(FileState(fs_files, sources_path))
            /\ PassedProbeSkipsRewrite

\* a rewrite that succeeded over a file both probes rejected
C39_Witness ==
    /\ fs_calls # <<>>
    /\ LastCall.op = "_fix_sources_list"
    /\ LastCall.ok
    /\ LastCall.before = [exists |-> TRUE, content |-> SourcesText.debian]
    /\ ~_check_sources_valid(LastCall.before)
    /\ FileState(fs_files, sources_path).content = SourcesText.kali_sources

\* C40: after any sequence of sources rewrites, two in the same second
\* included, the content the sources file had before the first of them is
\* still held by a file: a later backup does not replace an earlier one.
C40_BackupsAreNeverOverwritten ==
    (/\ fs_calls # <<>>
     /\ \A i \in 1..Len(fs_calls) : fs_calls[i].op = "_fix_sources_list"
     /\ fs_calls[1].before.exists)
    => \E p \in DOMAIN fs_files : fs_files[p] = fs_calls[1].before.content

=============================================================================
